---- MODULE Spec2Model ----
(***************************************************************************)
(* Store rating platform: the express routes of server/routes.ts over the  *)
(* storage layer of server/storage.ts and the tables of the shared schema. *)
(*                                                                         *)
(* A request is a process.  Its steps are the database calls it awaits:    *)
(* everything a handler computes between two awaits is synchronous and is  *)
(* part of the step that ends with the next database call.  Each database  *)
(* statement is atomic.                                                    *)
(***************************************************************************)
EXTENDS Integers, Sequences, FiniteSets, TLC

\* ------------------------------------------------------------------ bounds
NumProcs == 2       \* concurrent request handlers
MaxUsers == 7       \* user ids 1..MaxUsers
MaxStores == 3      \* values of the stores.id sequence
MaxRatingSeq == 3   \* values of the ratings.id sequence
MaxSessions == 2    \* session ids the store ever issues
MaxDay == 1         \* the clock advances day by day up to MaxDay
MaxTime == 8        \* and by a session's lifetime up to MaxTime

\* ------------------------------------------------------- program constants
SessionMaxAge == 7  \* cookie.maxAge: one week, in days
CheckPeriod == 1    \* MemoryStore checkPeriod: 24 h, in days
MinRating == 1      \* insertRatingSchema: z.number().min(1)
MaxRating == 5      \* insertRatingSchema: z.number().max(5)
NameMin == 20       \* insertUserSchema: name min(20)
NameMax == 60       \* insertUserSchema: name max(60)
StoreNameMin == 1   \* insertStoreSchema: name min(1)
StoreNameMax == 60  \* insertStoreSchema: name max(60)

Procs == 1..NumProcs
UserIds == 1..MaxUsers
StoreIds == 1..MaxStores
SessionIds == 1..MaxSessions

Roles == {"admin", "normal", "store_owner"}
Emails == {"a@x", "n@x", "m@x", "o@x", "p@x", "new@x"}
Passwords == {"Pw#1", "Pw#2"}

\* A JSON number of a request body, in halves: 5 is 2.5, 8 is 4.
RatingInputs == {0, 2, 5, 8, 10, 12}

NoId == 0
NoPassword == <<>>
NoUser == [id |-> NoId, email |-> "", password |-> NoPassword, role |-> ""]
NoStore == [id |-> NoId, ownerId |-> NoId]
NoSession == [userId |-> NoId, userRole |-> "", expires |-> 0]

VARIABLES
  users,      \* table users: id -> row
  stores,     \* table stores: id -> row
  ratings,    \* table ratings: a set of rows
  storeSeq,   \* last value of the serial stores.id
  ratingSeq,  \* last value of the serial ratings.id
  userSeq,    \* last generated local user id
  sessions,   \* MemoryStore: sid -> session
  sidSeq,     \* last session id issued
  lastPrune,  \* time of the last prune of the MemoryStore
  now,        \* wall clock
  pc,         \* per request handler: the storage call it awaits
  cur,        \* per request handler: the request in flight, the handler's locals
  resp        \* the last response sent, with the request it answers

vars == <<users, stores, ratings, storeSeq, ratingSeq, userSeq, sessions,
          sidSeq, lastPrune, now, pc, cur, resp>>

db == <<users, stores, ratings, storeSeq, ratingSeq, userSeq>>

\* ------------------------------------------------------------- credentials
\* bcrypt.hash / bcrypt.compare: a one-way hash that verifies its own input.
\* Mutant: every password verifies.
Compare_Any(plain, hashed) == TRUE

Hash(plain) == <<"bcrypt", plain>>
Compare(plain, hashed) == hashed = Hash(plain)

\* ----------------------------------------------------------------- numbers
\* A numeric SQL result as an exact fraction in lowest terms; den = 0 is NULL.
\* AVG over integers gives a numeric of 16 decimal places, which Number()
\* reads as a double: a mean of one or two values, a whole or a half, is
\* carried exactly.
RECURSIVE Gcd(_, _)
Gcd(a, b) == IF b = 0 THEN a ELSE Gcd(b, a % b)

Fraction(n, d) == [num |-> n \div Gcd(n, d), den |-> d \div Gcd(n, d)]
SqlNull == [num |-> 0, den |-> 0]
Zero == [num |-> 0, den |-> 1]

\* COALESCE(x, 0)
Coalesce(x) == IF x = SqlNull THEN Zero ELSE x

\* Number(x) || 0
NumberOrZero(x) == IF x = SqlNull \/ x.num = 0 THEN Zero ELSE x

RECURSIVE SumRating(_)
SumRating(rows) ==
  IF rows = {} THEN 0
  ELSE LET r == CHOOSE x \in rows : TRUE IN r.rating + SumRating(rows \ {r})

\* AVG(ratings.rating): the mean over the rows whose rating is not NULL, and
\* NULL over none.  A row of NULL ratings columns has id NoId.
SqlAvg(rows) ==
  LET vals == {r \in rows : r.id # NoId}
  IN IF vals = {} THEN SqlNull
     ELSE Fraction(SumRating(vals), Cardinality(vals))

\* COUNT(ratings.id): the rows whose ratings.id is not NULL.
SqlCountId(rows) == Cardinality({r \in rows : r.id # NoId})

\* ------------------------------------------------------------ storage: users
getUser(id) == IF id \in DOMAIN users THEN users[id] ELSE NoUser

getUserByEmail(email) ==
  IF \E i \in DOMAIN users : users[i].email = email
  THEN users[CHOOSE i \in DOMAIN users : users[i].email = email]
  ELSE NoUser

\* The insert into a users table whose email column carries no constraint.
createLocalUser_NoUnique(userData) ==
  LET id == userSeq + 1
      row == [id |-> id, email |-> userData.email,
              password |-> Hash(userData.password), role |-> userData.role]
  IN [ok |-> TRUE,
      users |-> [i \in DOMAIN users \cup {id} |->
                   IF i = id THEN row ELSE users[i]],
      returning |-> row]

\* users.email is UNIQUE: the insert throws on an email that a row holds.
createLocalUser(userData) ==
  LET id == userSeq + 1
      row == [id |-> id, email |-> userData.email,
              password |-> Hash(userData.password), role |-> userData.role]
  IN IF \E i \in DOMAIN users : users[i].email = userData.email
     THEN [ok |-> FALSE, users |-> users, returning |-> NoUser]
     ELSE [ok |-> TRUE,
           users |-> [i \in DOMAIN users \cup {id} |->
                        IF i = id THEN row ELSE users[i]],
           returning |-> row]

updateUserRole(id, role) ==
  IF id \in DOMAIN users
  THEN [users |-> [users EXCEPT ![id].role = role],
        returning |-> [users[id] EXCEPT !.role = role]]
  ELSE [users |-> users, returning |-> NoUser]

\* ratings.user_id and stores.owner_id reference users.id with no ON DELETE
\* action: the delete throws while a row references the user.
deleteUser(id) ==
  IF \/ \E r \in ratings : r.userId = id
     \/ \E s \in DOMAIN stores : stores[s].ownerId = id
  THEN [ok |-> FALSE, users |-> users]
  ELSE [ok |-> TRUE, users |-> [i \in DOMAIN users \ {id} |-> users[i]]]

\* ----------------------------------------------------------- storage: stores
\* stores.owner_id is nullable and references users.id.
createStore(storeData) ==
  LET id == storeSeq + 1
      row == [id |-> id, ownerId |-> storeData.ownerId]
  IN IF storeData.ownerId # NoId /\ storeData.ownerId \notin DOMAIN users
     THEN [ok |-> FALSE, stores |-> stores, returning |-> NoStore]
     ELSE [ok |-> TRUE,
           stores |-> [i \in DOMAIN stores \cup {id} |->
                         IF i = id THEN row ELSE stores[i]],
           returning |-> row]

getStoreById(id) == IF id \in DOMAIN stores THEN stores[id] ELSE NoStore

getStoresByOwner(ownerId) ==
  {stores[s] : s \in {i \in DOMAIN stores : stores[i].ownerId = ownerId}}

\* A partial store: only the named fields are set.
updateStore(id, storeData) ==
  LET owner == IF "ownerId" \in storeData.fields THEN storeData.ownerId
               ELSE getStoreById(id).ownerId
  IN IF id \notin DOMAIN stores
     THEN [ok |-> TRUE, stores |-> stores, returning |-> NoStore]
     ELSE IF owner # NoId /\ owner \notin DOMAIN users
     THEN [ok |-> FALSE, stores |-> stores, returning |-> NoStore]
     ELSE [ok |-> TRUE,
           stores |-> [stores EXCEPT ![id].ownerId = owner],
           returning |-> [stores[id] EXCEPT !.ownerId = owner]]

\* Mutant: ratings.store_id carries no foreign key.
deleteStore_NoForeignKey(id) ==
  [ok |-> TRUE, stores |-> [i \in DOMAIN stores \ {id} |-> stores[i]]]

\* ratings.store_id references stores.id with no ON DELETE action.
deleteStore(id) ==
  IF \E r \in ratings : r.storeId = id
  THEN [ok |-> FALSE, stores |-> stores]
  ELSE [ok |-> TRUE, stores |-> [i \in DOMAIN stores \ {id} |-> stores[i]]]

NullRating == [id |-> NoId, userId |-> NoId, storeId |-> NoId, rating |-> 0,
               createdAt |-> 0, updatedAt |-> 0]

\* stores LEFT JOIN ratings ON stores.id = ratings.store_id: a store with no
\* rating joins one row whose ratings columns are NULL.
LeftJoinRatings(storeId) ==
  LET hit == {r \in ratings : r.storeId = storeId}
  IN IF hit = {} THEN {NullRating} ELSE hit

\* Mutant: COUNT(*) in place of COUNT(ratings.id).
getAllStores_CountStar ==
  {[id |-> s, ownerId |-> stores[s].ownerId,
    averageRating |-> NumberOrZero(Coalesce(SqlAvg(LeftJoinRatings(s)))),
    totalRatings |-> Cardinality(LeftJoinRatings(s))] : s \in DOMAIN stores}

getAllStores ==
  {[id |-> s, ownerId |-> stores[s].ownerId,
    averageRating |-> NumberOrZero(Coalesce(SqlAvg(LeftJoinRatings(s)))),
    totalRatings |-> SqlCountId(LeftJoinRatings(s))] : s \in DOMAIN stores}

\* ---------------------------------------------------------- storage: ratings
\* The value a JSON number (in halves) takes in the integer column; a number
\* that is no integer is refused by the column's input conversion.
IsInteger(x2) == x2 % 2 = 0
IntegerOf(x2) == x2 \div 2

RatingKeyRows(userId, storeId) ==
  {r \in ratings : r.userId = userId /\ r.storeId = storeId}

\* Mutant: a plain INSERT, with no ON CONFLICT clause and no unique index.
createOrUpdateRating_PlainInsert(ratingData, jsNow) ==
  LET id == ratingSeq + 1
      row == [id |-> id, userId |-> ratingData.userId,
              storeId |-> ratingData.storeId,
              rating |-> IntegerOf(ratingData.rating),
              createdAt |-> now, updatedAt |-> now]
  IN IF ~IsInteger(ratingData.rating)
     THEN [ok |-> FALSE, ratings |-> ratings, seq |-> ratingSeq,
           returning |-> NullRating]
     ELSE IF \/ ratingData.userId \notin DOMAIN users
             \/ ratingData.storeId \notin DOMAIN stores
     THEN [ok |-> FALSE, ratings |-> ratings, seq |-> id,
           returning |-> NullRating]
     ELSE [ok |-> TRUE, ratings |-> ratings \cup {row}, seq |-> id,
           returning |-> row]

\* Mutant: ON CONFLICT DO NOTHING, the first write wins.
createOrUpdateRating_DoNothing(ratingData, jsNow) ==
  LET hit == RatingKeyRows(ratingData.userId, ratingData.storeId)
      id == ratingSeq + 1
      row == [id |-> id, userId |-> ratingData.userId,
              storeId |-> ratingData.storeId,
              rating |-> IntegerOf(ratingData.rating),
              createdAt |-> now, updatedAt |-> now]
  IN IF ~IsInteger(ratingData.rating)
     THEN [ok |-> FALSE, ratings |-> ratings, seq |-> ratingSeq,
           returning |-> NullRating]
     ELSE IF \/ ratingData.userId \notin DOMAIN users
             \/ ratingData.storeId \notin DOMAIN stores
     THEN [ok |-> FALSE, ratings |-> ratings, seq |-> id,
           returning |-> NullRating]
     ELSE IF hit = {}
     THEN [ok |-> TRUE, ratings |-> ratings \cup {row}, seq |-> id,
           returning |-> row]
     ELSE [ok |-> TRUE, ratings |-> ratings, seq |-> id,
           returning |-> CHOOSE r \in hit : TRUE]

\* Mutant: the update is applied only when the handler's timestamp is later
\* than the row's, so the order of the timestamps decides, not of the commits.
createOrUpdateRating_ByTimestamp(ratingData, jsNow) ==
  LET hit == RatingKeyRows(ratingData.userId, ratingData.storeId)
      id == ratingSeq + 1
      row == [id |-> id, userId |-> ratingData.userId,
              storeId |-> ratingData.storeId,
              rating |-> IntegerOf(ratingData.rating),
              createdAt |-> now, updatedAt |-> now]
      old == CHOOSE r \in hit : TRUE
      new == IF jsNow > old.updatedAt
             THEN [old EXCEPT !.rating = IntegerOf(ratingData.rating),
                              !.updatedAt = jsNow]
             ELSE old
  IN IF ~IsInteger(ratingData.rating)
     THEN [ok |-> FALSE, ratings |-> ratings, seq |-> ratingSeq,
           returning |-> NullRating]
     ELSE IF \/ ratingData.userId \notin DOMAIN users
             \/ ratingData.storeId \notin DOMAIN stores
     THEN [ok |-> FALSE, ratings |-> ratings, seq |-> id,
           returning |-> NullRating]
     ELSE IF hit = {}
     THEN [ok |-> TRUE, ratings |-> ratings \cup {row}, seq |-> id,
           returning |-> row]
     ELSE [ok |-> TRUE, ratings |-> (ratings \ {old}) \cup {new}, seq |-> id,
           returning |-> new]

\* Mutant: on a conflict the row is deleted and inserted anew.
createOrUpdateRating_Replace(ratingData, jsNow) ==
  LET hit == RatingKeyRows(ratingData.userId, ratingData.storeId)
      id == ratingSeq + 1
      row == [id |-> id, userId |-> ratingData.userId,
              storeId |-> ratingData.storeId,
              rating |-> IntegerOf(ratingData.rating),
              createdAt |-> now, updatedAt |-> now]
  IN IF ~IsInteger(ratingData.rating)
     THEN [ok |-> FALSE, ratings |-> ratings, seq |-> ratingSeq,
           returning |-> NullRating]
     ELSE IF \/ ratingData.userId \notin DOMAIN users
             \/ ratingData.storeId \notin DOMAIN stores
     THEN [ok |-> FALSE, ratings |-> ratings, seq |-> id,
           returning |-> NullRating]
     ELSE [ok |-> TRUE, ratings |-> (ratings \ hit) \cup {row}, seq |-> id,
           returning |-> row]

\* Mutant: the conflict target is store_id alone, so that a rating of the
\* store by anyone is the row that is updated.
createOrUpdateRating_TargetStore(ratingData, jsNow) ==
  LET hit == {r \in ratings : r.storeId = ratingData.storeId}
      id == ratingSeq + 1
      row == [id |-> id, userId |-> ratingData.userId,
              storeId |-> ratingData.storeId,
              rating |-> IntegerOf(ratingData.rating),
              createdAt |-> now, updatedAt |-> now]
      old == CHOOSE r \in hit : TRUE
      new == [old EXCEPT !.rating = IntegerOf(ratingData.rating),
                         !.updatedAt = jsNow]
  IN IF ~IsInteger(ratingData.rating)
     THEN [ok |-> FALSE, ratings |-> ratings, seq |-> ratingSeq,
           returning |-> NullRating]
     ELSE IF \/ ratingData.userId \notin DOMAIN users
             \/ ratingData.storeId \notin DOMAIN stores
     THEN [ok |-> FALSE, ratings |-> ratings, seq |-> id,
           returning |-> NullRating]
     ELSE IF hit = {}
     THEN [ok |-> TRUE, ratings |-> ratings \cup {row}, seq |-> id,
           returning |-> row]
     ELSE [ok |-> TRUE, ratings |-> (ratings \ {old}) \cup {new}, seq |-> id,
           returning |-> new]

\* INSERT ... ON CONFLICT (user_id, store_id) DO UPDATE SET rating, updated_at
\* RETURNING *.  The statement throws on a value the integer column refuses
\* and on a user_id or store_id that references no row.  nextval of the
\* serial id is taken by every execution, also by one that ends in the
\* update or in a foreign-key error.  jsNow is the handler's new Date();
\* created_at and updated_at default to the database's now().
createOrUpdateRating(ratingData, jsNow) ==
  LET hit == RatingKeyRows(ratingData.userId, ratingData.storeId)
      id == ratingSeq + 1
      row == [id |-> id, userId |-> ratingData.userId,
              storeId |-> ratingData.storeId,
              rating |-> IntegerOf(ratingData.rating),
              createdAt |-> now, updatedAt |-> now]
      old == CHOOSE r \in hit : TRUE
      new == [old EXCEPT !.rating = IntegerOf(ratingData.rating),
                         !.updatedAt = jsNow]
  IN IF ~IsInteger(ratingData.rating)
     THEN [ok |-> FALSE, ratings |-> ratings, seq |-> ratingSeq,
           returning |-> NullRating]
     ELSE IF \/ ratingData.userId \notin DOMAIN users
             \/ ratingData.storeId \notin DOMAIN stores
     THEN [ok |-> FALSE, ratings |-> ratings, seq |-> id,
           returning |-> NullRating]
     ELSE IF hit = {}
     THEN [ok |-> TRUE, ratings |-> ratings \cup {row}, seq |-> id,
           returning |-> row]
     ELSE [ok |-> TRUE, ratings |-> (ratings \ {old}) \cup {new}, seq |-> id,
           returning |-> new]

\* ratings INNER JOIN users ON ratings.user_id = users.id WHERE store_id = ?
getRatingsByStore(storeId) ==
  {[id |-> r.id, userId |-> r.userId, storeId |-> r.storeId,
    rating |-> r.rating, createdAt |-> r.createdAt, updatedAt |-> r.updatedAt,
    user |-> [id |-> users[r.userId].id, email |-> users[r.userId].email]] :
     r \in {x \in ratings : x.storeId = storeId /\ x.userId \in DOMAIN users}}

getUserRatingForStore(userId, storeId) ==
  LET hit == RatingKeyRows(userId, storeId)
  IN IF hit = {} THEN NullRating ELSE CHOOSE r \in hit : TRUE

getStoreStats(storeId) ==
  LET rows == {r \in ratings : r.storeId = storeId}
  IN [averageRating |-> NumberOrZero(Coalesce(SqlAvg(rows))),
      totalRatings |-> SqlCountId(rows)]

\* ------------------------------------------------------------ session store
\* The store is the memorystore package as registerRoutes configures it: an
\* entry lives cookie.maxAge from the time it is saved and is pruned every
\* checkPeriod.  The refresh of an entry's expiry by a request that does not
\* modify its session is not modelled: an entry expires at the latest a
\* maxAge after its last save or refresh, and no request refreshes an entry
\* that get no longer returns.
\* Mutant: the store returns every entry it holds, expired or not.
SessionLookup_Stored(sid) ==
  IF sid \in DOMAIN sessions THEN sessions[sid] ELSE NoSession

\* MemoryStore.get: an entry whose expiry has passed is not returned, whether
\* or not the periodic prune has removed it.
SessionLookup(sid) ==
  IF sid \in DOMAIN sessions /\ ~(now > sessions[sid].expires)
  THEN sessions[sid]
  ELSE NoSession

\* The periodic prune drops the entries whose expiry has passed.
Pruned == [s \in {x \in DOMAIN sessions : ~(now > sessions[x].expires)} |->
             sessions[s]]

\* The session of a request: its cookie's while that session is live, and
\* otherwise a new one (NoId), whose id is generated when it is first saved.
RequestSession(sid) == IF SessionLookup(sid) # NoSession THEN sid ELSE NoId

SavedSessionId(sessionID) == IF sessionID # NoId THEN sessionID ELSE sidSeq + 1

\* req.session.userId / userRole are set and the session is saved.
SessionSave(sessionID, user) ==
  [s \in DOMAIN sessions \cup {SavedSessionId(sessionID)} |->
     IF s = SavedSessionId(sessionID)
     THEN [userId |-> user.id, userRole |-> user.role,
           expires |-> now + SessionMaxAge]
     ELSE sessions[s]]

\* Mutant: destroy leaves the store as it is.
SessionDestroy_Keep(sid) == sessions

\* req.session.destroy()
SessionDestroy(sid) == [s \in DOMAIN sessions \ {sid} |-> sessions[s]]

\* --------------------------------------------------------------- the gates
\* requireAuth: the row of the user the request's session names.
CurrentUser(sid) == getUser(SessionLookup(sid).userId)

\* Mutant: the session is trusted and the user is not looked up.
requireAuth_SessionOnly(sid) == SessionLookup(sid).userId # NoId

requireAuth(sid) == SessionLookup(sid).userId # NoId /\ CurrentUser(sid) # NoUser

\* Mutant: requireRole lets every signed-in user through.
requireRole_AnyUser(roles, user) == user # NoUser

requireRole(roles, user) == user # NoUser /\ user.role \in roles

AdminOps == {"adminStats", "adminListUsers", "adminCreateUser", "adminSetRole",
             "adminDeleteUser", "createStore", "updateStore", "deleteStore"}
RaterOps == {"submitRating"}
OwnerOps == {"ownerStores", "ownerStoreRatings"}
AuthOps == {"authUser", "changePassword", "listStores"}

\* The routes that name requireRole, and the roles each passes.
Gated(op) == op \in AdminOps \cup RaterOps \cup OwnerOps

AllowedRoles(op) ==
  IF op \in AdminOps THEN {"admin"}
  ELSE IF op \in RaterOps THEN {"normal"}
  ELSE IF op \in OwnerOps THEN {"store_owner"}
  ELSE {}

\* What the middleware chain of a route answers: 401, 403, or 200 to go on.
GateStatus(op, sid) ==
  IF ~requireAuth(sid) THEN 401
  ELSE IF Gated(op) /\ ~requireRole(AllowedRoles(op), CurrentUser(sid)) THEN 403
  ELSE 200

GateMessage(op, sid) ==
  IF SessionLookup(sid).userId = NoId THEN "Unauthorized"
  ELSE IF CurrentUser(sid) = NoUser THEN "User not found"
  ELSE "Insufficient permissions"

\* ----------------------------------------------------------------- requests
NoData == <<>>
NoReq == [op |-> "", user |-> NoUser, body |-> NoData, loc |-> NoData]
NoResp == [op |-> "", user |-> NoUser, body |-> NoData,
           loc |-> NoData, status |-> 0, message |-> "", data |-> NoData]

\* res.status(status).json(...): the handler of request rq ends.  The
\* response is kept with the route, the caller and the body it answers, and
\* with the handler's locals as it ended.
Respond(p, rq, status, message, data) ==
  /\ resp' = [op |-> rq.op, user |-> rq.user, body |-> rq.body,
              loc |-> rq.loc, status |-> status, message |-> message,
              data |-> data]
  /\ pc' = [pc EXCEPT ![p] = "idle"]
  /\ cur' = [cur EXCEPT ![p] = NoReq]

\* The handler of request rq awaits a storage call.
Await(p, rq, call) ==
  /\ pc' = [pc EXCEPT ![p] = call]
  /\ cur' = [cur EXCEPT ![p] = rq]
  /\ UNCHANGED resp

\* Mutant: the handler's body check runs ahead of the gates.
Enter_ValidateFirst(p, op, sid, body, valid, message, loc, call) ==
  LET pass == GateStatus(op, sid) = 200
      rq == [op |-> op,
             user |-> IF requireAuth(sid) THEN CurrentUser(sid) ELSE NoUser,
             body |-> IF pass THEN body ELSE NoData,
             loc |-> IF pass /\ valid THEN loc ELSE NoData]
  IN /\ pc[p] = "idle"
     /\ IF ~valid
        THEN Respond(p, rq, 400, message, NoData)
        ELSE IF ~pass
        THEN Respond(p, rq, GateStatus(op, sid), GateMessage(op, sid), NoData)
        ELSE Await(p, rq, call)
     /\ UNCHANGED <<db, sessions, sidSeq, lastPrune, now>>

\* A request arrives on a route behind requireAuth: the session is loaded,
\* requireAuth reads the user, requireRole checks it, and the handler runs up
\* to its first storage call (valid: its body parses, and message is the
\* answer when it does not; loc: its locals).  The handler, and with it the
\* body, is reached only through the gates.
Enter(p, op, sid, body, valid, message, loc, call) ==
  LET pass == GateStatus(op, sid) = 200
      rq == [op |-> op,
             user |-> IF requireAuth(sid) THEN CurrentUser(sid) ELSE NoUser,
             body |-> IF pass THEN body ELSE NoData,
             loc |-> IF pass /\ valid THEN loc ELSE NoData]
  IN /\ pc[p] = "idle"
     /\ IF ~pass
        THEN Respond(p, rq, GateStatus(op, sid), GateMessage(op, sid), NoData)
        ELSE IF ~valid
        THEN Respond(p, rq, 400, message, NoData)
        ELSE Await(p, rq, call)
     /\ UNCHANGED <<db, sessions, sidSeq, lastPrune, now>>

\* ---------------------------------------------------------- POST /api/ratings
\* insertRatingSchema: rating is z.number().min(1).max(5).
insertRatingSchema(body) ==
  /\ body.rating >= 2 * MinRating
  /\ body.rating <= 2 * MaxRating

\* Mutant: { userId: user.id, ...req.body }, where a userId of the body
\* overrides the caller's.
SubmitRating_BodyFirst(p, sid, body) ==
  Enter(p, "submitRating", sid, body, insertRatingSchema(body),
        "Validation error",
        [ratingData |-> [userId |-> IF "userId" \in DOMAIN body
                                    THEN body.userId
                                    ELSE CurrentUser(sid).id,
                         storeId |-> body.storeId, rating |-> body.rating],
         jsNow |-> now],
        "createOrUpdateRating")

\* { ...req.body, userId: user.id }: the caller's id replaces a userId that
\* the body carries.
SubmitRating(p, sid, body) ==
  Enter(p, "submitRating", sid, body, insertRatingSchema(body),
        "Validation error",
        [ratingData |-> [userId |-> CurrentUser(sid).id,
                         storeId |-> body.storeId, rating |-> body.rating],
         jsNow |-> now],
        "createOrUpdateRating")

SubmitRatingWrite(p) ==
  /\ pc[p] = "createOrUpdateRating"
  /\ ratingSeq < MaxRatingSeq
  /\ LET res == createOrUpdateRating(cur[p].loc.ratingData, cur[p].loc.jsNow)
     IN /\ ratings' = res.ratings
        /\ ratingSeq' = res.seq
        /\ IF res.ok
           THEN Respond(p, cur[p], 200, "", res.returning)
           ELSE Respond(p, cur[p], 500, "Internal server error", NoData)
  /\ UNCHANGED <<users, stores, storeSeq, userSeq, sessions, sidSeq,
                 lastPrune, now>>

\* ------------------------------------------------------- POST /api/auth/login
authenticateLocal(p, sid, body) ==
  LET user == getUserByEmail(body.email)
      rq == [op |-> "login", user |-> NoUser, body |-> body, loc |-> NoData]
  IN /\ pc[p] = "idle"
     /\ sidSeq < MaxSessions \/ SessionLookup(sid) # NoSession
     /\ IF body.email = "" \/ body.password = ""
        THEN /\ Respond(p, rq, 400, "Email and password required", NoData)
             /\ UNCHANGED <<sessions, sidSeq>>
        ELSE IF user = NoUser \/ user.password = NoPassword
        THEN /\ Respond(p, rq, 401, "Invalid credentials", NoData)
             /\ UNCHANGED <<sessions, sidSeq>>
        ELSE IF ~Compare(body.password, user.password)
        THEN /\ Respond(p, rq, 401, "Invalid credentials", NoData)
             /\ UNCHANGED <<sessions, sidSeq>>
        ELSE /\ Respond(p, rq, 200, "",
                        [sid |-> SavedSessionId(RequestSession(sid)),
                         id |-> user.id, role |-> user.role])
             /\ sessions' = SessionSave(RequestSession(sid), user)
             /\ sidSeq' = IF RequestSession(sid) # NoId THEN sidSeq
                          ELSE sidSeq + 1
     /\ UNCHANGED <<db, lastPrune, now>>

\* ------------------------------------------------------ POST /api/auth/logout
Logout(p, sid) ==
  /\ pc[p] = "idle"
  /\ sessions' = IF SessionLookup(sid) # NoSession THEN SessionDestroy(sid)
                 ELSE sessions
  /\ Respond(p, [op |-> "logout", user |-> NoUser, body |-> [sid |-> sid],
                 loc |-> NoData],
             200, "Logged out successfully", NoData)
  /\ UNCHANGED <<db, sidSeq, lastPrune, now>>

\* ---------------------------------------------------------- the zod schemas
\* A body gives a name by its length.  An email is well formed unless it is
\* "bad" or empty; the password rule is the pure predicate of the schema,
\* which the passwords of Passwords pass and "weak" does not.
EmailFormat(email) == email \notin {"", "bad"}
PasswordRule(password) == password \in Passwords

insertUserSchema(body) ==
  /\ body.name >= NameMin /\ body.name <= NameMax
  /\ EmailFormat(body.email)
  /\ PasswordRule(body.password)
  /\ body.role \in {"admin", "normal", "store_owner"}

insertStoreSchema(body) ==
  /\ body.name >= StoreNameMin /\ body.name <= StoreNameMax
  /\ EmailFormat(body.email)

\* insertStoreSchema.partial(): only the fields the body names are checked.
insertStoreSchemaPartial(body) ==
  /\ "name" \in body.fields =>
       (body.name >= StoreNameMin /\ body.name <= StoreNameMax)
  /\ "email" \in body.fields => EmailFormat(body.email)

updatePasswordSchema(body) ==
  /\ body.currentPassword # ""
  /\ PasswordRule(body.newPassword)

\* -------------------------------------------------------- GET /api/auth/user
AuthUser(p, sid) ==
  LET rq == [op |-> "authUser", body |-> [sid |-> sid], loc |-> NoData,
             user |-> IF requireAuth(sid) THEN CurrentUser(sid) ELSE NoUser]
  IN /\ pc[p] = "idle"
     /\ IF GateStatus("authUser", sid) # 200
        THEN Respond(p, rq, GateStatus("authUser", sid),
                     GateMessage("authUser", sid), NoData)
        ELSE Respond(p, rq, 200, "",
                     [id |-> rq.user.id, email |-> rq.user.email,
                      role |-> rq.user.role])
     /\ UNCHANGED <<db, sessions, sidSeq, lastPrune, now>>

\* ---------------------------------------------------- POST /api/auth/register
\* Mutant: a session is stored for every request (saveUninitialized), also
\* for one whose body does not parse.
Register_SaveUninitialized(p, sid, body) ==
  LET rq == [op |-> "register", user |-> NoUser, body |-> body,
             loc |-> [sessionID |-> RequestSession(sid)]]
  IN /\ pc[p] = "idle"
     /\ IF ~insertUserSchema(body)
        THEN /\ Respond(p, rq, 400, "Validation error", NoData)
             /\ sessions' = SessionSave(RequestSession(sid), NoUser)
             /\ UNCHANGED <<db, sidSeq, lastPrune, now>>
        ELSE /\ Await(p, rq, "register:getUserByEmail")
             /\ UNCHANGED <<db, sessions, sidSeq, lastPrune, now>>

Register(p, sid, body) ==
  LET rq == [op |-> "register", user |-> NoUser, body |-> body,
             loc |-> [sessionID |-> RequestSession(sid)]]
  IN /\ pc[p] = "idle"
     /\ IF ~insertUserSchema(body)
        THEN Respond(p, rq, 400, "Validation error", NoData)
        ELSE Await(p, rq, "register:getUserByEmail")
     /\ UNCHANGED <<db, sessions, sidSeq, lastPrune, now>>

RegisterLookup(p) ==
  /\ pc[p] = "register:getUserByEmail"
  /\ IF getUserByEmail(cur[p].body.email) # NoUser
     THEN Respond(p, cur[p], 400, "User already exists with this email",
                  NoData)
     ELSE Await(p, cur[p], "register:createLocalUser")
  /\ UNCHANGED <<db, sessions, sidSeq, lastPrune, now>>

\* Mutant: the user is created with the role that the body names.
RegisterCreate_BodyRole(p) ==
  /\ pc[p] = "register:createLocalUser"
  /\ userSeq < MaxUsers
  /\ cur[p].loc.sessionID # NoId \/ sidSeq < MaxSessions
  /\ LET res == createLocalUser(cur[p].body)
     IN IF res.ok
        THEN /\ users' = res.users
             /\ userSeq' = userSeq + 1
             /\ sessions' = SessionSave(cur[p].loc.sessionID, res.returning)
             /\ sidSeq' = IF cur[p].loc.sessionID # NoId THEN sidSeq
                          ELSE sidSeq + 1
             /\ Respond(p, cur[p], 201, "",
                        [sid |-> SavedSessionId(cur[p].loc.sessionID),
                         id |-> res.returning.id,
                         role |-> res.returning.role])
        ELSE /\ Respond(p, cur[p], 500, "Internal server error", NoData)
             /\ UNCHANGED <<users, userSeq, sessions, sidSeq>>
  /\ UNCHANGED <<stores, ratings, storeSeq, ratingSeq, lastPrune, now>>

RegisterCreate(p) ==
  /\ pc[p] = "register:createLocalUser"
  /\ userSeq < MaxUsers
  /\ cur[p].loc.sessionID # NoId \/ sidSeq < MaxSessions
  /\ LET res == createLocalUser([cur[p].body EXCEPT !.role = "normal"])
     IN IF res.ok
        THEN /\ users' = res.users
             /\ userSeq' = userSeq + 1
             /\ sessions' = SessionSave(cur[p].loc.sessionID, res.returning)
             /\ sidSeq' = IF cur[p].loc.sessionID # NoId THEN sidSeq
                          ELSE sidSeq + 1
             /\ Respond(p, cur[p], 201, "",
                        [sid |-> SavedSessionId(cur[p].loc.sessionID),
                         id |-> res.returning.id,
                         role |-> res.returning.role])
        ELSE /\ Respond(p, cur[p], 500, "Internal server error", NoData)
             /\ UNCHANGED <<users, userSeq, sessions, sidSeq>>
  /\ UNCHANGED <<stores, ratings, storeSeq, ratingSeq, lastPrune, now>>

\* ------------------------------------------------------ PUT /api/auth/password
ChangePassword(p, sid, body) ==
  Enter(p, "changePassword", sid, body, updatePasswordSchema(body),
        "Validation error", NoData, "updatePassword:getUser")

\* storage.updatePassword up to its update: the user is read and the current
\* password compared with the hash read.
ChangePasswordRead(p) ==
  /\ pc[p] = "updatePassword:getUser"
  /\ IF \/ getUser(cur[p].user.id).password = NoPassword
        \/ ~Compare(cur[p].body.currentPassword,
                    getUser(cur[p].user.id).password)
     THEN Respond(p, cur[p], 400, "Current password is incorrect", NoData)
     ELSE Await(p, cur[p], "updatePassword:update")
  /\ UNCHANGED <<db, sessions, sidSeq, lastPrune, now>>

ChangePasswordUpdate(p) ==
  /\ pc[p] = "updatePassword:update"
  /\ users' = [i \in DOMAIN users |->
                 IF i = cur[p].user.id
                 THEN [users[i] EXCEPT
                         !.password = Hash(cur[p].body.newPassword)]
                 ELSE users[i]]
  /\ Respond(p, cur[p], 200, "Password updated successfully", NoData)
  /\ UNCHANGED <<stores, ratings, storeSeq, ratingSeq, userSeq, sessions,
                 sidSeq, lastPrune, now>>

\* -------------------------------------------------------- GET /api/admin/stats
AdminStats(p, sid) ==
  Enter(p, "adminStats", sid, NoData, TRUE, "", NoData, "stats:users")

AdminStatsUsers(p) ==
  /\ pc[p] = "stats:users"
  /\ Await(p, [cur[p] EXCEPT
                 !.loc = [totalUsers |-> Cardinality(DOMAIN users)]],
           "stats:stores")
  /\ UNCHANGED <<db, sessions, sidSeq, lastPrune, now>>

AdminStatsStores(p) ==
  /\ pc[p] = "stats:stores"
  /\ Await(p, [cur[p] EXCEPT
                 !.loc = [totalUsers |-> cur[p].loc.totalUsers,
                          totalStores |-> Cardinality(DOMAIN stores)]],
           "stats:ratings")
  /\ UNCHANGED <<db, sessions, sidSeq, lastPrune, now>>

AdminStatsRatings(p) ==
  /\ pc[p] = "stats:ratings"
  /\ Respond(p, cur[p], 200, "",
             [totalUsers |-> cur[p].loc.totalUsers,
              totalStores |-> cur[p].loc.totalStores,
              totalRatings |-> Cardinality(ratings)])
  /\ UNCHANGED <<db, sessions, sidSeq, lastPrune, now>>

\* -------------------------------------------------------- GET /api/admin/users
AdminListUsers(p, sid, query) ==
  Enter(p, "adminListUsers", sid, query, TRUE, "", NoData, "getAllUsers")

\* storage.getAllUsers: the users of the role the query names, or all.
AdminListUsersRead(p) ==
  /\ pc[p] = "getAllUsers"
  /\ Respond(p, cur[p], 200, "",
             {users[i] : i \in {j \in DOMAIN users :
                 cur[p].body.role = "" \/ users[j].role = cur[p].body.role}})
  /\ UNCHANGED <<db, sessions, sidSeq, lastPrune, now>>

\* ------------------------------------------------------- POST /api/admin/users
AdminCreateUser(p, sid, body) ==
  Enter(p, "adminCreateUser", sid, body, insertUserSchema(body),
        "Validation error", NoData, "createUser:getUserByEmail")

AdminCreateUserLookup(p) ==
  /\ pc[p] = "createUser:getUserByEmail"
  /\ IF getUserByEmail(cur[p].body.email) # NoUser
     THEN Respond(p, cur[p], 400, "User already exists with this email",
                  NoData)
     ELSE Await(p, cur[p], "createUser:createLocalUser")
  /\ UNCHANGED <<db, sessions, sidSeq, lastPrune, now>>

AdminCreateUserCreate(p) ==
  /\ pc[p] = "createUser:createLocalUser"
  /\ userSeq < MaxUsers
  /\ LET res == createLocalUser(cur[p].body)
     IN IF res.ok
        THEN /\ users' = res.users
             /\ userSeq' = userSeq + 1
             /\ Respond(p, cur[p], 201, "", res.returning)
        ELSE /\ Respond(p, cur[p], 500, "Internal server error", NoData)
             /\ UNCHANGED <<users, userSeq>>
  /\ UNCHANGED <<stores, ratings, storeSeq, ratingSeq, sessions, sidSeq,
                 lastPrune, now>>

\* ---------------------------------------------- PUT /api/admin/users/:id/role
AdminSetRole(p, sid, body) ==
  Enter(p, "adminSetRole", sid, body,
        body.role \in {"admin", "normal", "store_owner"}, "Invalid role",
        NoData, "updateUserRole")

AdminSetRoleWrite(p) ==
  /\ pc[p] = "updateUserRole"
  /\ LET res == updateUserRole(cur[p].body.id, cur[p].body.role)
     IN /\ users' = res.users
        /\ Respond(p, cur[p], 200, "", res.returning)
  /\ UNCHANGED <<stores, ratings, storeSeq, ratingSeq, userSeq, sessions,
                 sidSeq, lastPrune, now>>

\* --------------------------------------------------- DELETE /api/admin/users/:id
AdminDeleteUser(p, sid, body) ==
  Enter(p, "adminDeleteUser", sid, body, TRUE, "", NoData, "deleteUser")

AdminDeleteUserWrite(p) ==
  /\ pc[p] = "deleteUser"
  /\ LET res == deleteUser(cur[p].body.id)
     IN /\ users' = res.users
        /\ IF res.ok
           THEN Respond(p, cur[p], 200, "User deleted successfully", NoData)
           ELSE Respond(p, cur[p], 500, "Internal server error", NoData)
  /\ UNCHANGED <<stores, ratings, storeSeq, ratingSeq, userSeq, sessions,
                 sidSeq, lastPrune, now>>

\* ------------------------------------------------------------ GET /api/stores
ListStores(p, sid) ==
  Enter(p, "listStores", sid, NoData, TRUE, "", NoData, "getAllStores")

\* The stores with their aggregates; userRating is undefined (NoId) so far.
WithUserRating(list, storeId, userRating) ==
  {[id |-> st.id, ownerId |-> st.ownerId, averageRating |-> st.averageRating,
    totalRatings |-> st.totalRatings,
    userRating |-> IF st.id = storeId THEN userRating ELSE st.userRating] :
     st \in list}

ListStoresRead(p) ==
  /\ pc[p] = "getAllStores"
  /\ LET list == {[id |-> st.id, ownerId |-> st.ownerId,
                   averageRating |-> st.averageRating,
                   totalRatings |-> st.totalRatings, userRating |-> NoId] :
                     st \in getAllStores}
     IN IF cur[p].user.role = "normal" /\ list # {}
        THEN Await(p, [cur[p] EXCEPT
                         !.loc = [stores |-> list,
                                  todo |-> {st.id : st \in list}]],
                   "getUserRatingForStore")
        ELSE Respond(p, cur[p], 200, "", list)
  /\ UNCHANGED <<db, sessions, sidSeq, lastPrune, now>>

\* One turn of the loop over the stores, for a normal user.
ListStoresUserRating(p) ==
  /\ pc[p] = "getUserRatingForStore"
  /\ LET storeId == CHOOSE i \in cur[p].loc.todo :
                      \A j \in cur[p].loc.todo : i <= j
         list == WithUserRating(cur[p].loc.stores, storeId,
                   getUserRatingForStore(cur[p].user.id, storeId).rating)
     IN IF cur[p].loc.todo = {storeId}
        THEN Respond(p, cur[p], 200, "", list)
        ELSE Await(p, [cur[p] EXCEPT
                         !.loc = [stores |-> list,
                                  todo |-> cur[p].loc.todo \ {storeId}]],
                   "getUserRatingForStore")
  /\ UNCHANGED <<db, sessions, sidSeq, lastPrune, now>>

\* ------------------------------------------------------ POST /api/admin/stores
CreateStore(p, sid, body) ==
  Enter(p, "createStore", sid, body, insertStoreSchema(body),
        "Validation error", NoData, "createStore")

CreateStoreWrite(p) ==
  /\ pc[p] = "createStore"
  /\ storeSeq < MaxStores
  /\ LET res == createStore(cur[p].body)
     IN /\ stores' = res.stores
        /\ storeSeq' = storeSeq + 1
        /\ IF res.ok
           THEN Respond(p, cur[p], 201, "", res.returning)
           ELSE Respond(p, cur[p], 500, "Internal server error", NoData)
  /\ UNCHANGED <<users, ratings, ratingSeq, userSeq, sessions, sidSeq,
                 lastPrune, now>>

\* --------------------------------------------------- PUT /api/admin/stores/:id
UpdateStore(p, sid, body) ==
  Enter(p, "updateStore", sid, body, insertStoreSchemaPartial(body),
        "Validation error", NoData, "updateStore")

UpdateStoreWrite(p) ==
  /\ pc[p] = "updateStore"
  /\ LET res == updateStore(cur[p].body.id, cur[p].body)
     IN /\ stores' = res.stores
        /\ IF res.ok
           THEN Respond(p, cur[p], 200, "", res.returning)
           ELSE Respond(p, cur[p], 500, "Internal server error", NoData)
  /\ UNCHANGED <<users, ratings, storeSeq, ratingSeq, userSeq, sessions,
                 sidSeq, lastPrune, now>>

\* ------------------------------------------------ DELETE /api/admin/stores/:id
DeleteStore(p, sid, body) ==
  Enter(p, "deleteStore", sid, body, TRUE, "", NoData, "deleteStore")

DeleteStoreWrite(p) ==
  /\ pc[p] = "deleteStore"
  /\ LET res == deleteStore(cur[p].body.id)
     IN /\ stores' = res.stores
        /\ IF res.ok
           THEN Respond(p, cur[p], 200, "Store deleted successfully", NoData)
           ELSE Respond(p, cur[p], 500, "Internal server error", NoData)
  /\ UNCHANGED <<users, ratings, storeSeq, ratingSeq, userSeq, sessions,
                 sidSeq, lastPrune, now>>

\* ------------------------------------------------ GET /api/store-owner/stores
OwnerStores(p, sid) ==
  Enter(p, "ownerStores", sid, NoData, TRUE, "", NoData, "getStoresByOwner")

OwnerStoresRead(p) ==
  /\ pc[p] = "getStoresByOwner"
  /\ Respond(p, cur[p], 200, "", getStoresByOwner(cur[p].user.id))
  /\ UNCHANGED <<db, sessions, sidSeq, lastPrune, now>>

\* --------------------------------------- GET /api/store-owner/ratings/:storeId
OwnerStoreRatings(p, sid, body) ==
  Enter(p, "ownerStoreRatings", sid, body, TRUE, "", NoData, "getStoreById")

\* Mutant: the check is only that the store exists.
OwnsStore_Exists(store, user) == store # NoStore

\* The ownership check on the store read.
OwnsStore(store, user) == store # NoStore /\ store.ownerId = user.id

\* Mutant: a store that does not exist is answered 404.
AccessDenied_NotFound(store) ==
  IF store = NoStore THEN [status |-> 404, message |-> "Store not found"]
  ELSE [status |-> 403, message |-> "Access denied"]

\* The answer to a caller who does not own the store read.
AccessDenied(store) == [status |-> 403, message |-> "Access denied"]

OwnerStoreRatingsCheck(p) ==
  /\ pc[p] = "getStoreById"
  /\ LET store == getStoreById(cur[p].body.storeId)
     IN IF ~OwnsStore(store, cur[p].user)
        THEN Respond(p, [cur[p] EXCEPT !.loc = [store |-> store]],
                     AccessDenied(store).status, AccessDenied(store).message,
                     NoData)
        ELSE Await(p, [cur[p] EXCEPT !.loc = [store |-> store]],
                   "getRatingsByStore")
  /\ UNCHANGED <<db, sessions, sidSeq, lastPrune, now>>

OwnerStoreRatingsRead(p) ==
  /\ pc[p] = "getRatingsByStore"
  /\ Await(p, [cur[p] EXCEPT
                 !.loc = [store |-> cur[p].loc.store,
                          ratings |-> getRatingsByStore(cur[p].body.storeId)]],
           "getStoreStats")
  /\ UNCHANGED <<db, sessions, sidSeq, lastPrune, now>>

OwnerStoreRatingsStats(p) ==
  /\ pc[p] = "getStoreStats"
  /\ Respond(p, cur[p], 200, "",
             [ratings |-> cur[p].loc.ratings,
              stats |-> getStoreStats(cur[p].body.storeId)])
  /\ UNCHANGED <<db, sessions, sidSeq, lastPrune, now>>

\* ------------------------------------------------------ persistence failures
\* A storage call that a route handler awaits rejects (the database is
\* unreachable, the connection drops).  Every await of a handler is inside
\* its try block, whose catch answers 500; the call changed nothing.
StorageFailure(p) ==
  /\ pc[p] \notin {"idle", "unhandledRejection"}
  /\ Respond(p, cur[p], 500, "Internal server error", NoData)
  /\ UNCHANGED <<db, sessions, sidSeq, lastPrune, now>>

\* The user lookup of authenticateLocal (op "login", for a body that names an
\* email and a password) or of requireAuth (any other op, for a session that
\* names a user) rejects.  Neither middleware catches: the promise that the
\* async function returned is rejected and next is never called.  What follows
\* is the router's: one that ignores the promise a middleware returns leaves
\* the request unanswered, one that passes the rejection on to its error
\* handling answers 500.
MiddlewareRejection(p, op, sid, body) ==
  LET rq == [op |-> op, user |-> NoUser, body |-> body, loc |-> NoData]
  IN /\ pc[p] = "idle"
     /\ IF op = "login" THEN body.email # "" /\ body.password # ""
        ELSE SessionLookup(sid).userId # NoId
     /\ \/ /\ pc' = [pc EXCEPT ![p] = "unhandledRejection"]
           /\ cur' = [cur EXCEPT ![p] = rq]
           /\ UNCHANGED resp
        \/ Respond(p, rq, 500, "Internal Server Error", NoData)
     /\ UNCHANGED <<db, sessions, sidSeq, lastPrune, now>>

\* ---------------------------------------------------------------- the clock
Tick ==
  /\ now < MaxDay
  /\ now' = now + 1
  /\ UNCHANGED <<db, sessions, sidSeq, lastPrune, pc, cur, resp>>

TickWeek ==
  /\ now + SessionMaxAge <= MaxTime
  /\ now' = now + SessionMaxAge
  /\ UNCHANGED <<db, sessions, sidSeq, lastPrune, pc, cur, resp>>

\* MemoryStore's interval timer, every checkPeriod.
Prune ==
  /\ now >= lastPrune + CheckPeriod
  /\ sessions' = Pruned
  /\ lastPrune' = now
  /\ UNCHANGED <<db, sidSeq, now, pc, cur, resp>>

\* ------------------------------------------------------------ specification
\* The rows the database holds when the server starts: an administrator,
\* two normal users, two store owners and a store of each owner.  The second
\* owner is an account with no password, as upsertUser creates them.
SeedUsers ==
  [i \in 1..5 |->
     [id |-> i,
      email |-> CASE i = 1 -> "a@x" [] i = 2 -> "n@x" [] i = 3 -> "m@x"
                  [] i = 4 -> "o@x" [] OTHER -> "p@x",
      password |-> IF i = 5 THEN NoPassword ELSE Hash("Pw#1"),
      role |-> CASE i = 1 -> "admin" [] i \in {2, 3} -> "normal"
                 [] OTHER -> "store_owner"]]

SeedStores ==
  [i \in 1..2 |-> [id |-> i, ownerId |-> IF i = 1 THEN 4 ELSE 5]]

Init ==
  /\ users = SeedUsers
  /\ stores = SeedStores
  /\ ratings = {}
  /\ storeSeq = 2
  /\ ratingSeq = 0
  /\ userSeq = 5
  /\ sessions = [s \in {} |-> NoSession]
  /\ sidSeq = 0
  /\ lastPrune = 0
  /\ now = 0
  /\ pc = [p \in Procs |-> "idle"]
  /\ cur = [p \in Procs |-> NoReq]
  /\ resp = NoResp

Cookies == SessionIds \cup {NoId}

LoginBodies == [email : Emails \cup {""}, password : Passwords \cup {""}]
RatingBodies == [storeId : StoreIds, rating : RatingInputs]
UserBodies == [name : {NameMin - 1, NameMin}, email : Emails \cup {"bad"},
               password : Passwords \cup {"weak"}, role : Roles \cup {"bogus"}]
PasswordBodies == [currentPassword : Passwords \cup {""},
                   newPassword : Passwords \cup {"weak"}]
RoleBodies == [id : UserIds, role : Roles \cup {"bogus"}]
UserIdBodies == [id : UserIds]
UserQueries == [role : Roles \cup {""}]
StoreBodies == [name : {StoreNameMin - 1, StoreNameMin}, email : {"s@x", "bad"},
                ownerId : UserIds \cup {NoId}]
StorePatches == [id : StoreIds, fields : SUBSET {"name", "email", "ownerId"},
                 name : {StoreNameMin - 1, StoreNameMin},
                 email : {"s@x", "bad"}, ownerId : UserIds \cup {NoId}]
StoreIdBodies == [id : StoreIds]
StoreRatingBodies == [storeId : StoreIds]

Next ==
  \/ \E p \in Procs, sid \in Cookies, body \in LoginBodies :
       authenticateLocal(p, sid, body)
  \/ \E p \in Procs, sid \in Cookies : Logout(p, sid)
  \/ \E p \in Procs, sid \in Cookies : AuthUser(p, sid)
  \/ \E p \in Procs, sid \in Cookies, body \in UserBodies :
       Register(p, sid, body)
  \/ \E p \in Procs : RegisterLookup(p)
  \/ \E p \in Procs : RegisterCreate(p)
  \/ \E p \in Procs, sid \in Cookies, body \in PasswordBodies :
       ChangePassword(p, sid, body)
  \/ \E p \in Procs : ChangePasswordRead(p)
  \/ \E p \in Procs : ChangePasswordUpdate(p)
  \/ \E p \in Procs, sid \in Cookies : AdminStats(p, sid)
  \/ \E p \in Procs : AdminStatsUsers(p)
  \/ \E p \in Procs : AdminStatsStores(p)
  \/ \E p \in Procs : AdminStatsRatings(p)
  \/ \E p \in Procs, sid \in Cookies, query \in UserQueries :
       AdminListUsers(p, sid, query)
  \/ \E p \in Procs : AdminListUsersRead(p)
  \/ \E p \in Procs, sid \in Cookies, body \in UserBodies :
       AdminCreateUser(p, sid, body)
  \/ \E p \in Procs : AdminCreateUserLookup(p)
  \/ \E p \in Procs : AdminCreateUserCreate(p)
  \/ \E p \in Procs, sid \in Cookies, body \in RoleBodies :
       AdminSetRole(p, sid, body)
  \/ \E p \in Procs : AdminSetRoleWrite(p)
  \/ \E p \in Procs, sid \in Cookies, body \in UserIdBodies :
       AdminDeleteUser(p, sid, body)
  \/ \E p \in Procs : AdminDeleteUserWrite(p)
  \/ \E p \in Procs, sid \in Cookies : ListStores(p, sid)
  \/ \E p \in Procs : ListStoresRead(p)
  \/ \E p \in Procs : ListStoresUserRating(p)
  \/ \E p \in Procs, sid \in Cookies, body \in StoreBodies :
       CreateStore(p, sid, body)
  \/ \E p \in Procs : CreateStoreWrite(p)
  \/ \E p \in Procs, sid \in Cookies, body \in StorePatches :
       UpdateStore(p, sid, body)
  \/ \E p \in Procs : UpdateStoreWrite(p)
  \/ \E p \in Procs, sid \in Cookies, body \in StoreIdBodies :
       DeleteStore(p, sid, body)
  \/ \E p \in Procs : DeleteStoreWrite(p)
  \/ \E p \in Procs, sid \in Cookies, body \in RatingBodies :
       SubmitRating(p, sid, body)
  \/ \E p \in Procs : SubmitRatingWrite(p)
  \/ \E p \in Procs, sid \in Cookies : OwnerStores(p, sid)
  \/ \E p \in Procs : OwnerStoresRead(p)
  \/ \E p \in Procs, sid \in Cookies, body \in StoreRatingBodies :
       OwnerStoreRatings(p, sid, body)
  \/ \E p \in Procs : OwnerStoreRatingsCheck(p)
  \/ \E p \in Procs : OwnerStoreRatingsRead(p)
  \/ \E p \in Procs : OwnerStoreRatingsStats(p)
  \/ \E p \in Procs : StorageFailure(p)
  \/ \E p \in Procs, body \in LoginBodies :
       MiddlewareRejection(p, "login", NoId, body)
  \/ \E p \in Procs, op \in AdminOps \cup RaterOps \cup OwnerOps \cup AuthOps,
        sid \in Cookies :
       MiddlewareRejection(p, op, sid, NoData)
  \/ Tick
  \/ TickWeek
  \/ Prune

Spec == Init /\ [][Next]_vars

\* ---------------------------------------------------- the rating write path
\* Two raters sign in and rate concurrently; the clock stands still.
RaterLogins == [email : {"n@x", "m@x"}, password : {"Pw#1"}]
UpsertBodies == [storeId : {1, MaxStores}, rating : {0, 5, 8, 10, 12}]

NextUpsert ==
  \/ \E p \in Procs, body \in RaterLogins : authenticateLocal(p, NoId, body)
  \/ \E p \in Procs, sid \in Cookies, body \in UpsertBodies :
       SubmitRating(p, sid, body)
  \/ \E p \in Procs : SubmitRatingWrite(p)

SpecUpsert == Init /\ [][NextUpsert]_vars

\* ------------------------------------------------- one rater, moving clock
\* One rater rates one store again and again while the clock advances.
FrameLogins == [email : {"n@x"}, password : {"Pw#1"}]
FrameBodies == [storeId : {1, 2}, rating : {8, 10}]

NextFrame ==
  \/ \E p \in Procs, body \in FrameLogins : authenticateLocal(p, NoId, body)
  \/ \E p \in Procs, sid \in Cookies, body \in FrameBodies :
       SubmitRating(p, sid, body)
  \/ \E p \in Procs : SubmitRatingWrite(p)
  \/ Tick

SpecFrame == Init /\ [][NextFrame]_vars

\* ------------------------------------------------------------ the aggregates
\* Two raters rate the first store while a rater and the store's owner read
\* the aggregates.
AggregateLogins == [email : {"n@x", "m@x", "o@x"}, password : {"Pw#1"}]
AggregateBodies == [storeId : {1}, rating : {8, 10}]
AggregateStores == [storeId : {1}]

NextAggregate ==
  \/ \E p \in Procs, body \in AggregateLogins :
       authenticateLocal(p, NoId, body)
  \/ \E p \in Procs, sid \in Cookies, body \in AggregateBodies :
       SubmitRating(p, sid, body)
  \/ \E p \in Procs : SubmitRatingWrite(p)
  \/ \E p \in Procs, sid \in Cookies : ListStores(p, sid)
  \/ \E p \in Procs : ListStoresRead(p)
  \/ \E p \in Procs : ListStoresUserRating(p)
  \/ \E p \in Procs, sid \in Cookies, body \in AggregateStores :
       OwnerStoreRatings(p, sid, body)
  \/ \E p \in Procs : OwnerStoreRatingsCheck(p)
  \/ \E p \in Procs : OwnerStoreRatingsRead(p)
  \/ \E p \in Procs : OwnerStoreRatingsStats(p)

SpecAggregate == Init /\ [][NextAggregate]_vars

\* --------------------------------------------------------- the role gates
\* An administrator and a store owner, whom the administrator makes a rater,
\* sign in and call every route that names requireRole.
AccessLogins == [email : {"a@x", "o@x"}, password : {"Pw#1"}]
AccessUsers == [name : {NameMin}, email : {"new@x"}, password : {"Pw#1"},
                role : {"normal"}]
AccessRoles == [id : {4}, role : {"normal"}]
AccessUserIds == [id : {4}]
AccessQueries == [role : {""}]
AccessStores == [name : {StoreNameMin}, email : {"s@x"}, ownerId : {4}]
AccessPatches == [id : {2}, fields : {{"name"}}, name : {StoreNameMin},
                  email : {"s@x"}, ownerId : {NoId}]
AccessStoreIds == [id : {MaxStores}]
AccessRatings == [storeId : {1}, rating : {8}]
AccessStoreRatings == [storeId : {1, 2}]

NextAccess ==
  \/ \E p \in Procs, body \in AccessLogins : authenticateLocal(p, NoId, body)
  \/ \E p \in Procs, sid \in Cookies : AdminStats(p, sid)
  \/ \E p \in Procs : AdminStatsUsers(p)
  \/ \E p \in Procs : AdminStatsStores(p)
  \/ \E p \in Procs : AdminStatsRatings(p)
  \/ \E p \in Procs, sid \in Cookies, query \in AccessQueries :
       AdminListUsers(p, sid, query)
  \/ \E p \in Procs : AdminListUsersRead(p)
  \/ \E p \in Procs, sid \in Cookies, body \in AccessUsers :
       AdminCreateUser(p, sid, body)
  \/ \E p \in Procs : AdminCreateUserLookup(p)
  \/ \E p \in Procs : AdminCreateUserCreate(p)
  \/ \E p \in Procs, sid \in Cookies, body \in AccessRoles :
       AdminSetRole(p, sid, body)
  \/ \E p \in Procs : AdminSetRoleWrite(p)
  \/ \E p \in Procs, sid \in Cookies, body \in AccessUserIds :
       AdminDeleteUser(p, sid, body)
  \/ \E p \in Procs : AdminDeleteUserWrite(p)
  \/ \E p \in Procs, sid \in Cookies, body \in AccessStores :
       CreateStore(p, sid, body)
  \/ \E p \in Procs : CreateStoreWrite(p)
  \/ \E p \in Procs, sid \in Cookies, body \in AccessPatches :
       UpdateStore(p, sid, body)
  \/ \E p \in Procs : UpdateStoreWrite(p)
  \/ \E p \in Procs, sid \in Cookies, body \in AccessStoreIds :
       DeleteStore(p, sid, body)
  \/ \E p \in Procs : DeleteStoreWrite(p)
  \/ \E p \in Procs, sid \in Cookies, body \in AccessRatings :
       SubmitRating(p, sid, body)
  \/ \E p \in Procs : SubmitRatingWrite(p)
  \/ \E p \in Procs, sid \in Cookies : OwnerStores(p, sid)
  \/ \E p \in Procs : OwnerStoresRead(p)
  \/ \E p \in Procs, sid \in Cookies, body \in AccessStoreRatings :
       OwnerStoreRatings(p, sid, body)
  \/ \E p \in Procs : OwnerStoreRatingsCheck(p)
  \/ \E p \in Procs : OwnerStoreRatingsRead(p)
  \/ \E p \in Procs : OwnerStoreRatingsStats(p)

SpecAccess == Init /\ [][NextAccess]_vars

\* -------------------------------------------------------------- the sessions
\* Two users sign in, ask who they are and sign out while the clock advances
\* past the sessions' lifetime and the store prunes.
SessionLogins == [email : {"n@x", "o@x"}, password : {"Pw#1"}]

NextSession ==
  \/ \E p \in Procs, sid \in Cookies, body \in SessionLogins :
       authenticateLocal(p, sid, body)
  \/ \E p \in Procs, sid \in Cookies : Logout(p, sid)
  \/ \E p \in Procs, sid \in Cookies : AuthUser(p, sid)
  \/ Tick
  \/ TickWeek
  \/ Prune

SpecSession == Init /\ [][NextSession]_vars

\* The login bodies of the users of the given emails, with their password.
LoginsOf(emails) == [email : emails, password : {"Pw#1"}]

\* ------------------------------------------------------- the owner's reads
\* A store owner and a rater sign in and ask for the stores and the ratings
\* of stores that exist, of the owner and of another, and of none, while
\* the rater rates the owner's store.

NextOwner ==
  \/ \E p \in Procs, body \in LoginsOf({"o@x", "n@x"}) :
       authenticateLocal(p, NoId, body)
  \/ \E p \in Procs, sid \in Cookies : OwnerStores(p, sid)
  \/ \E p \in Procs : OwnerStoresRead(p)
  \/ \E p \in Procs, sid \in Cookies, body \in [storeId : StoreIds] :
       OwnerStoreRatings(p, sid, body)
  \/ \E p \in Procs : OwnerStoreRatingsCheck(p)
  \/ \E p \in Procs : OwnerStoreRatingsRead(p)
  \/ \E p \in Procs : OwnerStoreRatingsStats(p)
  \/ \E p \in Procs, sid \in Cookies, body \in [storeId : {1}, rating : {8}] :
       SubmitRating(p, sid, body)
  \/ \E p \in Procs : SubmitRatingWrite(p)

SpecOwner == Init /\ [][NextOwner]_vars

\* ------------------------------------------------------------ the deletions
\* A rater rates two stores while the administrator deletes stores and
\* users, the rater among them.

NextIntegrity ==
  \/ \E p \in Procs, body \in LoginsOf({"a@x", "n@x"}) :
       authenticateLocal(p, NoId, body)
  \/ \E p \in Procs, sid \in Cookies,
        body \in [userId : {3}, storeId : {1, 2}, rating : {8}] :
       SubmitRating(p, sid, body)
  \/ \E p \in Procs : SubmitRatingWrite(p)
  \/ \E p \in Procs, sid \in Cookies, body \in [id : {1, 2}] :
       DeleteStore(p, sid, body)
  \/ \E p \in Procs : DeleteStoreWrite(p)
  \/ \E p \in Procs, sid \in Cookies, body \in [id : {2, 3}] :
       AdminDeleteUser(p, sid, body)
  \/ \E p \in Procs : AdminDeleteUserWrite(p)

SpecIntegrity == Init /\ [][NextIntegrity]_vars

\* --------------------------------------------------------------- signing in
\* Logins with and without an email and a password, right and wrong, for a
\* user with a password, a user without one and an email that nobody holds
\* until it registers.
NextLogin ==
  \/ \E p \in Procs, sid \in Cookies,
        body \in [email : {"n@x", "p@x", "new@x", ""},
                  password : {"Pw#1", "Pw#2", ""}] :
       authenticateLocal(p, sid, body)
  \/ \E p \in Procs, sid \in Cookies,
        body \in [name : {NameMin}, email : {"new@x"}, password : {"Pw#2"},
                  role : {"admin"}] :
       Register(p, sid, body)
  \/ \E p \in Procs : RegisterLookup(p)
  \/ \E p \in Procs : RegisterCreate(p)

SpecLogin == Init /\ [][NextLogin]_vars

\* ------------------------------------------------------ concurrent sign-ups
\* The administrator signs in; a visitor registers and the administrator
\* creates a user, both with an email that is free or one that is taken.
NextSignup ==
  \/ \E p \in Procs, body \in LoginsOf({"a@x"}) :
       authenticateLocal(p, NoId, body)
  \/ \E p \in Procs,
        body \in [name : {NameMin}, email : {"new@x", "n@x"},
                  password : {"Pw#2"}, role : {"normal"}] :
       Register(p, NoId, body)
  \/ \E p \in Procs : RegisterLookup(p)
  \/ \E p \in Procs : RegisterCreate(p)
  \/ \E p \in Procs, sid \in Cookies,
        body \in [name : {NameMin}, email : {"new@x", "n@x"},
                  password : {"Pw#1"}, role : {"store_owner"}] :
       AdminCreateUser(p, sid, body)
  \/ \E p \in Procs : AdminCreateUserLookup(p)
  \/ \E p \in Procs : AdminCreateUserCreate(p)

SpecSignup == Init /\ [][NextSignup]_vars

\* ------------------------------------------------------------ every route
\* The administrator signs in on one connection and calls the administrator's
\* routes; a visitor registers on the other, rates, and calls the remaining
\* routes.  The administrator can make the registered user a store owner,
\* who then owns the store that the administrator creates.
NextRoles ==
  \/ \E body \in LoginsOf({"a@x"}) : authenticateLocal(1, NoId, body)
  \/ \E p \in Procs, sid \in SessionIds : Logout(p, sid)
  \/ \E sid \in SessionIds : AuthUser(2, sid)
  \/ \E body \in [name : {NameMin}, email : {"new@x"}, password : {"Pw#1"},
                   role : {"admin"}] :
       Register(2, NoId, body)
  \/ RegisterLookup(2)
  \/ RegisterCreate(2)
  \/ \E sid \in SessionIds,
        body \in [currentPassword : {"Pw#1"}, newPassword : {"Pw#1"}] :
       ChangePassword(2, sid, body)
  \/ ChangePasswordRead(2)
  \/ ChangePasswordUpdate(2)
  \/ \E sid \in SessionIds : AdminStats(1, sid)
  \/ AdminStatsUsers(1)
  \/ AdminStatsStores(1)
  \/ AdminStatsRatings(1)
  \/ \E sid \in SessionIds, query \in [role : {""}] :
       AdminListUsers(1, sid, query)
  \/ AdminListUsersRead(1)
  \/ \E p \in Procs, sid \in SessionIds,
        body \in [id : {MaxUsers - 1}, role : {"store_owner"}] :
       AdminSetRole(p, sid, body)
  \/ \E p \in Procs : AdminSetRoleWrite(p)
  \/ \E sid \in SessionIds : ListStores(2, sid)
  \/ ListStoresRead(2)
  \/ ListStoresUserRating(2)
  \/ \E sid \in SessionIds,
        body \in [name : {StoreNameMin}, email : {"s@x"},
                  ownerId : {MaxUsers - 1}] :
       CreateStore(1, sid, body)
  \/ CreateStoreWrite(1)
  \/ \E sid \in SessionIds,
        body \in [id : {MaxStores}, fields : {{"name"}},
                  name : {StoreNameMin}, email : {"s@x"}, ownerId : {NoId}] :
       UpdateStore(1, sid, body)
  \/ UpdateStoreWrite(1)
  \/ \E sid \in SessionIds, body \in [id : {MaxStores}] :
       DeleteStore(1, sid, body)
  \/ DeleteStoreWrite(1)
  \/ \E sid \in SessionIds, body \in [storeId : {1}, rating : {8}] :
       SubmitRating(2, sid, body)
  \/ SubmitRatingWrite(2)
  \/ \E sid \in SessionIds : OwnerStores(2, sid)
  \/ OwnerStoresRead(2)
  \/ \E sid \in SessionIds, body \in [storeId : {MaxStores}] :
       OwnerStoreRatings(2, sid, body)
  \/ OwnerStoreRatingsCheck(2)
  \/ OwnerStoreRatingsRead(2)
  \/ OwnerStoreRatingsStats(2)

SpecRoles == Init /\ [][NextRoles]_vars

\* ---------------------------------------------------------- password change
\* Two raters sign in with the seeded or the changed password and change
\* their password, giving the seeded or the changed one as the current one.
NextPassword ==
  \/ \E p \in Procs,
        body \in [email : {"n@x", "m@x"}, password : Passwords] :
       authenticateLocal(p, NoId, body)
  \/ \E p \in Procs, sid \in Cookies,
        body \in [currentPassword : Passwords, newPassword : {"Pw#2"}] :
       ChangePassword(p, sid, body)
  \/ \E p \in Procs : ChangePasswordRead(p)
  \/ \E p \in Procs : ChangePasswordUpdate(p)

SpecPassword == Init /\ [][NextPassword]_vars

\* ------------------------------------------------------- the order of checks
\* The administrator and a store owner sign in and call a rater's, an
\* administrator's and an owner's route, with and without a session, with
\* bodies that parse and bodies that do not, and for targets that exist and
\* targets that do not; the administrator can make the owner a rater, and a
\* week can pass.
OrderRatings == [storeId : {MaxStores}, rating : {0, 8}]
OrderRoles == [id : {4}, role : {"normal", "bogus"}]
OrderStoreRatings == [storeId : {1, MaxStores}]

NextOrder ==
  \/ \E p \in Procs, body \in LoginsOf({"a@x", "o@x"}) :
       authenticateLocal(p, NoId, body)
  \/ \E p \in Procs, sid \in Cookies, body \in OrderRatings :
       SubmitRating(p, sid, body)
  \/ \E p \in Procs : SubmitRatingWrite(p)
  \/ \E p \in Procs, sid \in Cookies, body \in OrderRoles :
       AdminSetRole(p, sid, body)
  \/ \E p \in Procs : AdminSetRoleWrite(p)
  \/ \E p \in Procs, sid \in Cookies, body \in OrderStoreRatings :
       OwnerStoreRatings(p, sid, body)
  \/ \E p \in Procs : OwnerStoreRatingsCheck(p)
  \/ \E p \in Procs : OwnerStoreRatingsRead(p)
  \/ \E p \in Procs : OwnerStoreRatingsStats(p)
  \/ TickWeek

SpecOrder == Init /\ [][NextOrder]_vars

\* ------------------------------------------------- requests that meet a failure
\* The administrator signs in and reads the dashboard statistics, a rater
\* signs in and rates; any storage call of theirs may fail.
NextFailure ==
  \/ \E p \in Procs, body \in LoginsOf({"a@x", "n@x"}) :
       authenticateLocal(p, NoId, body)
  \/ \E p \in Procs, sid \in Cookies : AdminStats(p, sid)
  \/ \E p \in Procs : AdminStatsUsers(p)
  \/ \E p \in Procs : AdminStatsStores(p)
  \/ \E p \in Procs : AdminStatsRatings(p)
  \/ \E p \in Procs, sid \in Cookies, body \in [storeId : {1}, rating : {8}] :
       SubmitRating(p, sid, body)
  \/ \E p \in Procs : SubmitRatingWrite(p)
  \/ \E p \in Procs : StorageFailure(p)
  \/ \E p \in Procs, body \in LoginsOf({"a@x", "n@x"}) :
       MiddlewareRejection(p, "login", NoId, body)
  \/ \E p \in Procs, op \in {"adminStats", "submitRating"}, sid \in Cookies :
       MiddlewareRejection(p, op, sid, NoData)

SpecFailure == Init /\ [][NextFailure]_vars

\* ------------------------------------------------------- inputs at the boundary
\* The administrator signs in on one connection and calls the writing routes
\* of the administrator; a visitor registers on the other, rates and changes
\* the password.  Every body comes well formed and malformed, and the user
\* ids named are those of the users that can be created.
NextValidation ==
  \/ \E body \in LoginsOf({"a@x"}) : authenticateLocal(1, NoId, body)
  \/ \E body \in [name : {NameMin, NameMin - 1}, email : {"new@x"},
                   password : {"Pw#1"}, role : {"admin"}] :
       Register(2, NoId, body)
  \/ RegisterLookup(2)
  \/ RegisterCreate(2)
  \/ \E sid \in SessionIds,
        body \in [currentPassword : {"Pw#1"}, newPassword : {"Pw#1", "weak"}] :
       ChangePassword(2, sid, body)
  \/ ChangePasswordRead(2)
  \/ ChangePasswordUpdate(2)
  \/ \E sid \in SessionIds, body \in [storeId : {1}, rating : {8, 11}] :
       SubmitRating(2, sid, body)
  \/ SubmitRatingWrite(2)
  \/ \E sid \in SessionIds,
        body \in [name : {NameMin}, email : {"new@x", "bad"},
                  password : {"Pw#1"}, role : {"store_owner"}] :
       AdminCreateUser(1, sid, body)
  \/ AdminCreateUserLookup(1)
  \/ AdminCreateUserCreate(1)
  \/ \E sid \in SessionIds,
        body \in [id : {MaxUsers - 1, MaxUsers},
                  role : {"store_owner", "bogus"}] :
       AdminSetRole(1, sid, body)
  \/ AdminSetRoleWrite(1)
  \/ \E sid \in SessionIds, body \in [id : {MaxUsers}] :
       AdminDeleteUser(1, sid, body)
  \/ AdminDeleteUserWrite(1)
  \/ \E sid \in SessionIds,
        body \in [name : {StoreNameMin, StoreNameMax + 1}, email : {"s@x"},
                  ownerId : {NoId}] :
       CreateStore(1, sid, body)
  \/ CreateStoreWrite(1)
  \/ \E sid \in SessionIds,
        body \in [id : {1}, fields : {{"name"}, {"email"}},
                  name : {StoreNameMin}, email : {"bad"}, ownerId : {NoId}] :
       UpdateStore(1, sid, body)
  \/ UpdateStoreWrite(1)

SpecValidation == Init /\ [][NextValidation]_vars

\* ------------------------------------------------------------------- claims
\* A submitRating request that went through both gates: it was answered by
\* the handler, not by requireAuth or requireRole.
HandledRating ==
  resp.op = "submitRating" /\ resp.status \notin {0, 401, 403}

\* The value of a request body is an integer in 1..5.
ValidValue(x2) == x2 \in {2, 4, 6, 8, 10}

\* C1: in every reachable state, also while submitRating calls for one user
\* and one store run concurrently, the ratings table holds at most one row
\* for each (userId, storeId) pair.
C1_AtMostOneRowPerKey ==
  \A u \in UserIds, s \in StoreIds :
    Cardinality({r \in ratings : r.userId = u /\ r.storeId = s}) <= 1

\* Two submissions of different values for one key are in flight together
\* on a key whose row an earlier submission has written.
C1_Witness ==
  \E p, q \in Procs :
    /\ p # q
    /\ pc[p] = "createOrUpdateRating" /\ pc[q] = "createOrUpdateRating"
    /\ IsInteger(cur[p].loc.ratingData.rating)
    /\ IsInteger(cur[q].loc.ratingData.rating)
    /\ cur[p].loc.ratingData.rating # cur[q].loc.ratingData.rating
    /\ cur[p].loc.ratingData.userId = cur[q].loc.ratingData.userId
    /\ cur[p].loc.ratingData.storeId = cur[q].loc.ratingData.storeId
    /\ RatingKeyRows(cur[p].loc.ratingData.userId,
                     cur[p].loc.ratingData.storeId) # {}

\* C2: a submitRating that commits on a key that already has a row (the row
\* of an earlier submitRating of that user for that store) leaves exactly
\* one row for the key, with the value of this call, and leaves the store's
\* totalRatings as it was.
C2_SecondSubmitOverwrites ==
  [][\A p \in Procs :
       (/\ pc[p] = "createOrUpdateRating"
        /\ pc'[p] = "idle"
        /\ resp'.status = 200
        /\ RatingKeyRows(cur[p].loc.ratingData.userId,
                         cur[p].loc.ratingData.storeId) # {})
       => /\ \E r \in ratings' :
               /\ {x \in ratings' : /\ x.userId = cur[p].loc.ratingData.userId
                                    /\ x.storeId = cur[p].loc.ratingData.storeId}
                    = {r}
               /\ 2 * r.rating = cur[p].body.rating
          /\ Cardinality({x \in ratings' :
                            x.storeId = cur[p].loc.ratingData.storeId})
               = getStoreStats(cur[p].loc.ratingData.storeId).totalRatings
          /\ Cardinality({x \in ratings' :
                            x.storeId = cur[p].loc.ratingData.storeId})
               = Cardinality({x \in ratings :
                            x.storeId = cur[p].loc.ratingData.storeId})]_vars

\* A second submission has overwritten the first: the row returned is older
\* than the id the call drew.
C2_Witness ==
  /\ HandledRating /\ resp.status = 200
  /\ resp.data.id < ratingSeq
  /\ \A p \in Procs : pc[p] = "idle"
  /\ ratings = {resp.data}

\* C3: the upsert is linearizable per key: while the last response sent is
\* that of a committed submitRating, no later commit exists, and the one row
\* of its key holds the value that call submitted; every row's value is one
\* that a call for its key submitted.
C3_LastCommitWins ==
  /\ (HandledRating /\ resp.status = 200) =>
       /\ RatingKeyRows(resp.user.id, resp.body.storeId) = {resp.data}
       /\ 2 * resp.data.rating = resp.body.rating
  /\ \A r \in ratings : 2 * r.rating \in {b.rating : b \in UpsertBodies}

\* Two calls for one key have committed one after the other: the second, the
\* last response, returned the row of the first with its own value.
C3_Witness ==
  /\ HandledRating /\ resp.status = 200
  /\ ratingSeq = 2
  /\ resp.data.id = 1
  /\ ratings = {resp.data}
  /\ \E p \in Procs :
       /\ pc[p] = "createOrUpdateRating"
       /\ cur[p].loc.ratingData.userId = resp.data.userId
       /\ cur[p].loc.ratingData.storeId = resp.data.storeId
       /\ cur[p].body.rating # resp.body.rating

\* C4: a submitRating that commits on a key with no row adds one row whose id
\* was never issued before and whose createdAt equals its updatedAt; one that
\* commits on a key with a row changes only that row's value and updatedAt:
\* its id, createdAt, userId and storeId stay, and so does every other row.
C4_UpsertFrame ==
  [][\A p \in Procs :
       (/\ pc[p] = "createOrUpdateRating"
        /\ pc'[p] = "idle"
        /\ resp'.status = 200)
       => LET old == {x \in ratings :
                        /\ x.userId = cur[p].loc.ratingData.userId
                        /\ x.storeId = cur[p].loc.ratingData.storeId}
          IN IF old = {}
             THEN \E r \in ratings' :
                    /\ r \notin ratings
                    /\ ratings' = ratings \cup {r}
                    /\ r.id > ratingSeq
                    /\ \A x \in ratings : x.id # r.id
                    /\ r.createdAt = r.updatedAt
             ELSE \E o \in old, r \in ratings' :
                    /\ ratings' \ {r} = ratings \ {o}
                    /\ r.id = o.id
                    /\ r.createdAt = o.createdAt
                    /\ r.userId = o.userId
                    /\ r.storeId = o.storeId]_vars

\* A row was inserted and, after the clock advanced, updated: it keeps its id
\* and createdAt under a later updatedAt, beside a row of another key.
C4_Witness ==
  /\ HandledRating /\ resp.status = 200
  /\ resp.data.id < ratingSeq
  /\ resp.data.updatedAt > resp.data.createdAt
  /\ resp.data \in ratings
  /\ \E x \in ratings : x.storeId # resp.data.storeId

\* C5: a submitRating whose value is no integer in 1..5 is answered with a
\* validation error, and the step that answers it changes no rating.
C5_InvalidValueIsValidationError ==
  [][(/\ resp' # resp
      /\ resp'.op = "submitRating"
      /\ resp'.status \notin {0, 401, 403}
      /\ ~ValidValue(resp'.body.rating))
     => (/\ resp'.status = 400
         /\ resp'.message = "Validation error"
         /\ UNCHANGED ratings)]_vars

\* C6: a submitRating with a valid value for a store id that references no
\* store is answered 404, and the step that answers it adds no rating.
C6_UnknownStoreIsNotFound ==
  [][(/\ resp' # resp
      /\ resp'.op = "submitRating"
      /\ resp'.status \notin {0, 401, 403}
      /\ ValidValue(resp'.body.rating)
      /\ resp'.body.storeId \notin DOMAIN stores)
     => (/\ resp'.status = 404
         /\ UNCHANGED ratings)]_vars

\* The fraction f is the arithmetic mean of the values of rows, and 0 of none.
IsMeanOf(f, rows) ==
  IF rows = {} THEN f = Zero
  ELSE f.den > 0 /\ f.num * Cardinality(rows) = f.den * SumRating(rows)

\* C7: for every store id, getStoreStats gives the number of the store's
\* ratings and the arithmetic mean of their values, and exactly 0 and 0 for
\* a store with none; the aggregate of each store in getAllStores is the
\* same pair.
C7_AggregateIsCountAndMean ==
  /\ \A s \in StoreIds :
       LET rows == {r \in ratings : r.storeId = s}
       IN /\ getStoreStats(s).totalRatings = Cardinality(rows)
          /\ IsMeanOf(getStoreStats(s).averageRating, rows)
          /\ rows = {} => getStoreStats(s) = [averageRating |-> Zero,
                                              totalRatings |-> 0]
  /\ \A e \in getAllStores :
       [averageRating |-> e.averageRating, totalRatings |-> e.totalRatings]
         = getStoreStats(e.id)

\* A listing was answered in which one store has two ratings of mean 4.5 and
\* another has none, and the tables still are as the listing read them.
C7_Witness ==
  /\ resp.op = "listStores" /\ resp.status = 200
  /\ \E e \in resp.data :
       e.totalRatings = 2 /\ e.averageRating = [num |-> 9, den |-> 2]
  /\ \E e \in resp.data : e.totalRatings = 0 /\ e.averageRating = Zero
  /\ \A e \in resp.data :
       [averageRating |-> e.averageRating, totalRatings |-> e.totalRatings]
         = getStoreStats(e.id)

\* The role each role-gated operation is reserved to.
RoleOf ==
  [op \in {"adminStats", "adminListUsers", "adminCreateUser", "adminSetRole",
           "adminDeleteUser", "createStore", "updateStore", "deleteStore",
           "submitRating", "ownerStores", "ownerStoreRatings"} |->
     IF op = "submitRating" THEN "normal"
     ELSE IF op \in {"ownerStores", "ownerStoreRatings"} THEN "store_owner"
     ELSE "admin"]

Ended(sid) ==
  /\ sid \in 1..sidSeq
  /\ sid \in DOMAIN sessions => now > sessions[sid].expires

AllOps == AdminOps \cup RaterOps \cup OwnerOps \cup AuthOps

C10_OnlyTheOwnerReadsRatings ==
  /\ resp.op = "ownerStoreRatings" /\ resp.status = 200 =>
       /\ resp.loc.store.id = resp.body.storeId
       /\ resp.loc.store.ownerId = resp.user.id
  /\ (/\ resp.op = "ownerStoreRatings"
      /\ resp.user.role = "store_owner"
      /\ resp.status \notin {0, 401}
      /\ resp.loc.store.ownerId # resp.user.id) =>
       /\ resp.status = 403
       /\ resp.message = "Access denied"
  /\ \A p \in Procs :
       pc[p] \in {"getRatingsByStore", "getStoreStats"} =>
         /\ cur[p].loc.store.id = cur[p].body.storeId
         /\ cur[p].loc.store.ownerId = cur[p].user.id

\* A store owner asked for the ratings of a store of another owner and was
\* refused.
C10_Witness ==
  /\ resp.op = "ownerStoreRatings" /\ resp.status = 403
  /\ resp.message = "Access denied"
  /\ resp.user.role = "store_owner"
  /\ resp.loc.store.id # NoId
  /\ resp.loc.store.ownerId \notin {NoId, resp.user.id}

\* The error kind of a status.
ErrorKind(status) ==
  CASE status = 400 -> "ValidationError"
    [] status = 401 -> "Unauthenticated"
    [] status = 403 -> "PermissionDenied"
    [] status = 404 -> "NotFound"
    [] status = 409 -> "Conflict"
    [] status = 500 -> "InternalError"
    [] OTHER -> "Ok"

\* C11: every refusal of ownerStoreRatings to a signed-in caller is of kind
\* PermissionDenied, the kind of the role gate's refusal and never NotFound;
\* to a store owner the refusal for a store id that names no store is the
\* very answer given for a store of another owner.
C11_NoExistenceLeak ==
  [][(/\ resp' # resp
      /\ resp'.op = "ownerStoreRatings"
      /\ resp'.user.id # NoId
      /\ resp'.status # 200)
     => /\ ErrorKind(resp'.status) = "PermissionDenied"
        /\ resp'.user.role = "store_owner" =>
             /\ resp'.body.storeId \notin DOMAIN stores
                  \/ stores[resp'.body.storeId].ownerId # resp'.user.id
             /\ [status |-> resp'.status, message |-> resp'.message,
                 data |-> resp'.data]
                  = [status |-> 403, message |-> "Access denied",
                     data |-> NoData]]_vars

\* A store owner was refused the ratings of a store id that names no store,
\* with the answer a store of another owner gets.
C11_Witness ==
  /\ resp.op = "ownerStoreRatings" /\ resp.status = 403
  /\ resp.user.role = "store_owner"
  /\ resp.body.storeId \notin DOMAIN stores
  /\ resp.loc.store = NoStore
  /\ resp.message = "Access denied"

\* C12: the administrator's deletion of a store that exists and has ratings
\* succeeds: after it the store is gone, getRatingsByStore of its id is
\* empty and no rating references the id.
C12_StoreDeletionCascades ==
  [][(/\ resp' # resp
      /\ resp'.op = "deleteStore"
      /\ resp'.status \notin {0, 401, 403}
      /\ resp'.body.id \in DOMAIN stores
      /\ \E r \in ratings : r.storeId = resp'.body.id)
     => (/\ resp'.status = 200
         /\ resp'.body.id \notin DOMAIN stores'
         /\ \A s \in StoreIds :
              s = resp'.body.id => getRatingsByStore(s)' = {}
         /\ \A r \in ratings' : r.storeId # resp'.body.id)]_vars

\* C14: in every reachable state every rating references a store that
\* exists and a user that exists.
C14_RatingsReferenceExistingRows ==
  \A r \in ratings : r.storeId \in DOMAIN stores /\ r.userId \in DOMAIN users

\* A user and a store were deleted, and the deletion of a rated store was
\* attempted while its rating stands.
C14_Witness ==
  /\ 3 \notin DOMAIN users
  /\ 2 \notin DOMAIN stores
  /\ resp.op = "deleteStore" /\ resp.status \notin {0, 401, 403}
  /\ \E r \in ratings : r.storeId = resp.body.id

\* C13: a request on a live session of a user that exists passes the role
\* gate of an operation exactly when the role the session recorded at its
\* creation is the operation's role, whatever the user's role is now.
C13_SessionRoleSnapshotAuthorizes ==
  \A sid \in DOMAIN sessions :
    (/\ ~(now > sessions[sid].expires)
     /\ sessions[sid].userId \in DOMAIN users)
    => \A op \in DOMAIN RoleOf :
         (GateStatus(op, sid) = 200) <=> (sessions[sid].userRole = RoleOf[op])

Verifies(body) ==
  \E u \in DOMAIN users :
    /\ users[u].email = body.email
    /\ users[u].password # NoPassword
    /\ users[u].password = Hash(body.password)

\* A session is bound to a user in this step: its id is stored with a userId
\* that it was not stored with before.
BoundTo(sid, u) ==
  /\ sid \in DOMAIN sessions' /\ sessions'[sid].userId = u
  /\ sid \notin DOMAIN sessions \/ sessions[sid].userId # u

\* C16, as the code has it: a login that carries an email and a password
\* which do not verify (no user of the email, no stored hash, another
\* password) is answered 401 and stores nothing in any session; a login that
\* lacks the email or the password is answered 400 and stores nothing; and a
\* session is bound to a user only by a login whose password verifies
\* against that user's hash or by the registration that creates the user.
C16_LoginBindsOnlyVerified ==
  [][/\ (resp' # resp /\ resp'.op = "login" /\ ~Verifies(resp'.body)) =>
          /\ resp'.status =
               IF resp'.body.email = "" \/ resp'.body.password = ""
               THEN 400 ELSE 401
          /\ UNCHANGED sessions
     /\ \A sid \in SessionIds, u \in UserIds :
          BoundTo(sid, u) =>
            \/ /\ resp'.op = "login" /\ resp'.status = 200
               /\ u \in DOMAIN users
               /\ users[u].email = resp'.body.email
               /\ users[u].password = Hash(resp'.body.password)
            \/ /\ resp'.op = "register" /\ resp'.status = 201
               /\ u \notin DOMAIN users /\ u \in DOMAIN users'
               /\ users'[u].email = resp'.body.email]_vars

\* C16 as stated: every login that does not verify is answered 401 and
\* stores nothing in any session.
C16_UnverifiedLoginIsUnauthenticated ==
  [][(resp' # resp /\ resp'.op = "login" /\ ~Verifies(resp'.body)) =>
       (resp'.status = 401 /\ UNCHANGED sessions)]_vars

\* The login of the user without a password was answered 401 while the
\* session of a registration is stored.
C16_Witness ==
  /\ resp.op = "login" /\ resp.status = 401
  /\ resp.body.email = "p@x" /\ resp.body.password = "Pw#1"
  /\ \E sid \in DOMAIN sessions :
       /\ sessions[sid].userId \in DOMAIN users
       /\ users[sessions[sid].userId].email = "new@x"

\* C17: in every reachable state no two users have the same email, also after
\* a register and an adminCreateUser request raced with the same email.
C17_EmailsAreUnique ==
  \A i \in DOMAIN users, j \in DOMAIN users :
    users[i].email = users[j].email => i = j

\* A registration lost the race against the administrator's creation of a
\* user of the same email: its insert was refused while that user exists.
C17_Witness ==
  /\ resp.op = "register"
  /\ resp.status = 500
  /\ \E i \in DOMAIN users :
       /\ users[i].email = resp.body.email
       /\ users[i].role = "store_owner"
       /\ i \notin DOMAIN SeedUsers

\* C18: a register or adminCreateUser request whose email is held by a user
\* when its insert runs is answered Conflict and creates no user and no
\* session, also when it passed its existence check before a concurrent
\* request of the same email inserted.
C18_LateDuplicateIsConflict ==
  [][\A p \in Procs :
       (/\ pc[p] \in {"register:createLocalUser",
                      "createUser:createLocalUser"}
        /\ pc'[p] = "idle"
        /\ getUserByEmail(cur[p].body.email) # NoUser)
       => /\ ErrorKind(resp'.status) = "Conflict"
          /\ users' = users
          /\ sessions' = sessions]_vars

\* C19: the role of an existing user changes only in the write of an
\* adminSetRole request that names the user and that passed the gate as an
\* administrator; every step of login, logout, register, changePassword,
\* submitRating, store create/update/delete and of the read operations leaves
\* the role of every existing user as it was.
C19_RoleChangesOnlyByAdminSetRole ==
  [][\A u \in DOMAIN users :
       (u \in DOMAIN users' /\ users'[u].role # users[u].role)
       => /\ resp'.op = "adminSetRole"
          /\ resp'.status = 200
          /\ resp'.user.role = "admin"
          /\ resp'.body.id = u
          /\ resp'.body.role = users'[u].role
          /\ \E p \in Procs : pc[p] = "updateUserRole" /\ pc'[p] = "idle"]_vars

\* The administrator made the registered user a store owner, and requests
\* of the other kinds have had their effect too: the user's rating is stored
\* and a store was created for them.
C19_Witness ==
  /\ (MaxUsers - 1) \in DOMAIN users
  /\ users[MaxUsers - 1].role = "store_owner"
  /\ \E r \in ratings : r.userId = MaxUsers - 1
  /\ MaxStores \in DOMAIN stores
  /\ \A i \in DOMAIN SeedUsers : users[i].role = SeedUsers[i].role

\* C20: a changePassword whose currentPassword does not verify against the
\* caller's stored hash, or whose caller has no stored hash, is answered
\* PermissionDenied and leaves every credential as it was; a changePassword
\* that succeeds changes the caller's credential only, to one that the new
\* password verifies against and a different old password does not.
C20_WrongCurrentPasswordIsDenied ==
  [][\A p \in Procs :
       /\ (/\ pc[p] = "updatePassword:getUser"
           /\ pc'[p] = "idle"
           /\ \/ getUser(cur[p].user.id).password = NoPassword
              \/ ~Compare(cur[p].body.currentPassword,
                          getUser(cur[p].user.id).password))
          => /\ ErrorKind(resp'.status) = "PermissionDenied"
             /\ users' = users
       /\ (pc[p] = "updatePassword:update" /\ pc'[p] = "idle")
          => /\ resp'.status = 200
             /\ \A i \in DOMAIN users \ {cur[p].user.id} :
                  users'[i] = users[i]
             /\ Compare(cur[p].body.newPassword,
                        users'[cur[p].user.id].password)
             /\ cur[p].body.currentPassword # cur[p].body.newPassword
                  => ~Compare(cur[p].body.currentPassword,
                              users'[cur[p].user.id].password)]_vars

\* The session that cookie sid names is stored, has not expired and names a
\* user that exists.
ValidSession(sid) ==
  /\ sid \in DOMAIN sessions
  /\ now <= sessions[sid].expires
  /\ sessions[sid].userId \in DOMAIN users

\* The request of process p with cookie sid to a route that passes the roles
\* given is answered on arrival, before its handler starts: Unauthenticated
\* without a valid session, PermissionDenied with one of a user of another
\* role.
DecidedByGate(p, sid, roles) ==
  /\ ~ValidSession(sid)
       => resp'.status = 401 /\ pc'[p] = "idle" /\ UNCHANGED db
  /\ (ValidSession(sid) /\ users[sessions[sid].userId].role \notin roles)
       => resp'.status = 403 /\ pc'[p] = "idle" /\ UNCHANGED db

\* C21: the checks run in the order authentication, role, ownership and the
\* first that fails decides the answer: a request to a role-gated route gets
\* Unauthenticated without a valid session and PermissionDenied with the
\* session of a user of another role, whatever its body and whether or not
\* its target exists; its handler does not start, so none of its reads or
\* writes runs; and the ownership check of ownerStoreRatings starts only for
\* a caller who passed the role check as a store owner.
C21_FirstFailingCheckDecides ==
  [][\A p \in Procs :
       /\ \A sid \in Cookies :
            /\ \A body \in OrderRatings :
                 SubmitRating(p, sid, body)
                   => DecidedByGate(p, sid, {"normal"})
            /\ \A body \in OrderRoles :
                 AdminSetRole(p, sid, body)
                   => DecidedByGate(p, sid, {"admin"})
            /\ \A body \in OrderStoreRatings :
                 OwnerStoreRatings(p, sid, body)
                   => DecidedByGate(p, sid, {"store_owner"})
       /\ (pc[p] = "idle" /\ pc'[p] = "getStoreById")
            => \E sid \in SessionIds :
                 /\ ValidSession(sid)
                 /\ users[sessions[sid].userId] = cur'[p].user
                 /\ cur'[p].user.role = "store_owner"]_vars

\* The store owner, made a rater meanwhile, was refused by the role gate of an
\* owner's route while the ownership check of an earlier request of theirs is
\* still to run.
C21_Witness ==
  /\ resp.op = "ownerStoreRatings"
  /\ resp.status = 403
  /\ resp.message = "Insufficient permissions"
  /\ resp.user.role = "normal"
  /\ \E p \in Procs : pc[p] = "getStoreById"

\* C22: whenever a persistence-layer call of a request fails, in a handler,
\* in the user lookup of login or in the user lookup of the authentication
\* gate, the request is answered, and answered InternalError.
C22_PersistenceFailureIsInternalError ==
  [][\A p \in Procs :
       (\/ StorageFailure(p)
        \/ \E body \in LoginsOf({"a@x", "n@x"}) :
             MiddlewareRejection(p, "login", NoId, body)
        \/ \E op \in {"adminStats", "submitRating"}, sid \in Cookies :
             MiddlewareRejection(p, op, sid, NoData))
       => /\ pc'[p] = "idle"
          /\ ErrorKind(resp'.status) = "InternalError"]_vars

\* C23: a request that is rejected with a ValidationError wrote nothing: the
\* step that answers it leaves users, stores, ratings and the sessions as
\* they were, and it is the request's arrival or the return of the first
\* storage call of its handler, a read, so that no earlier step of the
\* request wrote either.
C23_RejectedInputWritesNothing ==
  [][(resp' # resp /\ ErrorKind(resp'.status) = "ValidationError")
       => /\ UNCHANGED <<users, stores, ratings, sessions>>
          /\ \E p \in Procs :
               /\ pc'[p] = "idle"
               /\ pc[p] \in {"idle", "register:getUserByEmail",
                             "createUser:getUserByEmail",
                             "updatePassword:getUser"}
               /\ \A q \in Procs \ {p} : pc'[q] = pc[q]]_vars

\* An adminSetRole that names a role outside the three was rejected after
\* the visitor had registered and rated and the administrator had created a
\* store: users, stores, ratings and sessions have content that a write
\* would have changed.
C23_Witness ==
  /\ resp.op = "adminSetRole"
  /\ resp.status = 400
  /\ resp.message = "Invalid role"
  /\ resp.body.role = "bogus"
  /\ resp.body.id \in DOMAIN users
  /\ users[resp.body.id].role = "normal"
  /\ ratings # {}
  /\ MaxStores \in DOMAIN stores

\* C24: an adminSetRole or adminDeleteUser of an administrator that names a
\* user id that matches no user is answered NotFound and changes no state.
C24_UnknownUserIsNotFound ==
  [][\A p \in Procs :
       (/\ pc[p] \in {"updateUserRole", "deleteUser"}
        /\ pc'[p] = "idle"
        /\ getUser(cur[p].body.id) = NoUser)
       => /\ ErrorKind(resp'.status) = "NotFound"
          /\ UNCHANGED <<db, sessions>>]_vars

\* The rating rows by key and value: who rated which store how.
KeyValues(rows) == {<<r.userId, r.storeId, r.rating>> : r \in rows}

\* The key-value set kv with the value of the key of ratingData set.
Submitted(kv, ratingData) ==
  {t \in kv : ~(t[1] = ratingData.userId /\ t[2] = ratingData.storeId)}
    \cup {<<ratingData.userId, ratingData.storeId,
            IntegerOf(ratingData.rating)>>}

SameKey(d, e) == d.userId = e.userId /\ d.storeId = e.storeId

\* C25: submitRating calls for different keys commute.  When the write of one
\* call commits while the write of a call for another key is pending, the
\* committed write sets the value of its own key and nothing else; the
\* pending write succeeds or fails afterwards exactly as it would have
\* before, and the rows it then leaves are, by key and value, those that
\* the two writes leave in the other order.
C25_DifferentKeysCommute ==
  [][\A p \in Procs, q \in Procs :
       LET d == cur[p].loc.ratingData
           e == cur[q].loc.ratingData
           first == createOrUpdateRating(d, cur[p].loc.jsNow)
           alone == createOrUpdateRating(e, cur[q].loc.jsNow)
           second == createOrUpdateRating(e, cur[q].loc.jsNow)'
       IN (/\ p # q
           /\ pc[p] = "createOrUpdateRating" /\ pc'[p] = "idle"
           /\ pc[q] = "createOrUpdateRating"
           /\ ~SameKey(d, e))
          => /\ second.ok = alone.ok
             /\ first.ok
                  => KeyValues(ratings') = Submitted(KeyValues(ratings), d)
             /\ ~first.ok => ratings' = ratings
             /\ (first.ok /\ second.ok)
                  => /\ KeyValues(second.ratings)
                          = Submitted(Submitted(KeyValues(ratings), d), e)
                     /\ KeyValues(second.ratings)
                          = Submitted(KeyValues(alone.ratings), d)
                     /\ KeyValues({second.returning})
                          = KeyValues({alone.returning})]_vars

\* The write of one rater has committed while the write of the other rater
\* for the same store is pending, and the store has a rating of each: the
\* pending write is an update that follows a write for another key.
C25_Witness ==
  /\ resp.op = "submitRating"
  /\ resp.status = 200
  /\ \E p \in Procs :
       /\ pc[p] = "createOrUpdateRating"
       /\ ~SameKey(cur[p].loc.ratingData, resp.loc.ratingData)
       /\ IsInteger(cur[p].loc.ratingData.rating)
       /\ RatingKeyRows(cur[p].loc.ratingData.userId,
                        cur[p].loc.ratingData.storeId) # {}
       /\ RatingKeyRows(resp.loc.ratingData.userId,
                        resp.loc.ratingData.storeId) # {}

\* C26: in every ownerStoreRatings response the aggregate agrees with the
\* list: totalRatings is the number of the ratings listed and averageRating
\* is their mean, also when a submitRating for the store commits while the
\* request is served.
C26_AggregateAgreesWithList ==
  (resp.op = "ownerStoreRatings" /\ resp.status = 200)
    => /\ resp.data.stats.totalRatings = Cardinality(resp.data.ratings)
       /\ IsMeanOf(resp.data.stats.averageRating, resp.data.ratings)

\* C27: the user that a registration creates has the role normal whatever
\* role its body names, and the session that the registration stores names
\* that user; a user comes to have the role admin or store_owner only in the
\* insert of an adminCreateUser or the update of an adminSetRole whose caller
\* passed the gate as an administrator.
C27_RegistrationCreatesRaters ==
  [][/\ \A p \in Procs :
          (/\ pc[p] = "register:createLocalUser"
           /\ pc'[p] = "idle"
           /\ users' # users)
          => \E u \in DOMAIN users' \ DOMAIN users :
               /\ DOMAIN users' = DOMAIN users \cup {u}
               /\ users'[u].role = "normal"
               /\ users'[u].email = cur[p].body.email
               /\ resp'.data.sid \in DOMAIN sessions'
               /\ sessions'[resp'.data.sid].userId = u
               /\ \A sid \in DOMAIN sessions' \ {resp'.data.sid} :
                    sid \in DOMAIN sessions /\ sessions'[sid] = sessions[sid]
     /\ \A u \in DOMAIN users' :
          (/\ users'[u].role \in {"admin", "store_owner"}
           /\ u \in DOMAIN users => users[u].role # users'[u].role)
          => \E p \in Procs :
               /\ pc[p] \in {"createUser:createLocalUser", "updateUserRole"}
               /\ pc'[p] = "idle"
               /\ cur[p].user.role = "admin"
               /\ cur[p].body.role = users'[u].role
               /\ pc[p] = "updateUserRole" => cur[p].body.id = u
               /\ pc[p] = "createUser:createLocalUser"
                    => u \notin DOMAIN users]_vars

\* A registration whose body names the role admin was answered 201: its user
\* is a rater and its session names that user.
C27_Witness ==
  /\ resp.op = "register"
  /\ resp.status = 201
  /\ resp.body.role = "admin"
  /\ resp.data.id \in DOMAIN users
  /\ users[resp.data.id].role = "normal"
  /\ resp.data.sid \in DOMAIN sessions
  /\ sessions[resp.data.sid].userId = resp.data.id

\* C28: every rating row that a step creates or changes has the id of the
\* user of the session of the submitRating request that writes it, whatever
\* userId the body of that request carries: the handler of a submitRating
\* that arrives with a session takes the session's user as the author, and
\* only the write of a submitRating changes the ratings.
C28_RatingsAreTheCallersOwn ==
  [][/\ \A p \in Procs, sid \in SessionIds :
          (pc[p] = "idle" /\ pc'[p] = "createOrUpdateRating"
             /\ cur'[p].user.id = SessionLookup(sid).userId)
          => cur'[p].loc.ratingData.userId = SessionLookup(sid).userId
     /\ ratings' # ratings
          => \E p \in Procs :
               /\ pc[p] = "createOrUpdateRating" /\ pc'[p] = "idle"
               /\ cur[p].loc.ratingData.userId = cur[p].user.id
               /\ \A r \in ratings' \ ratings : r.userId = cur[p].user.id
               /\ \A r \in ratings \ ratings' : r.userId = cur[p].user.id]_vars

\* A rater's submitRating whose body names another user as the author was
\* answered with a rating of the rater, and that other user has no rating.
C28_Witness ==
  /\ resp.op = "submitRating"
  /\ resp.status = 200
  /\ resp.body.userId # resp.user.id
  /\ resp.data.userId = resp.user.id
  /\ \E r \in ratings : r.userId = resp.user.id
  /\ \A r \in ratings : r.userId # resp.body.userId

\* The session that cookie sid names is stored and names a user that has
\* been deleted.
SessionOfDeletedUser(sid) ==
  /\ sid \in DOMAIN sessions
  /\ sessions[sid].userId \notin DOMAIN users

\* C29: once adminDeleteUser has deleted a user, every request that carries
\* a session issued to that user is answered Unauthenticated on arrival,
\* although the deletion left the session stored: the step that deletes
\* the user changes no session, and the id of a deleted user is never a
\* user's again.
C29_SessionsOfDeletedUsersAreRefused ==
  [][\A p \in Procs :
       /\ \A sid \in SessionIds :
            (/\ SessionOfDeletedUser(sid)
             /\ \/ \E body \in [userId : {3}, storeId : {1, 2}, rating : {8}] :
                     SubmitRating(p, sid, body)
                \/ \E body \in [id : {1, 2}] : DeleteStore(p, sid, body)
                \/ \E body \in [id : {2, 3}] : AdminDeleteUser(p, sid, body))
            => /\ ErrorKind(resp'.status) = "Unauthenticated"
               /\ pc'[p] = "idle"
       /\ (pc[p] = "deleteUser" /\ pc'[p] = "idle")
            => /\ sessions' = sessions
               /\ \A sid \in DOMAIN sessions :
                    sessions[sid].userId = cur[p].body.id /\ users' # users
                      => SessionOfDeletedUser(sid)'
       /\ \A u \in 1..userSeq : u \notin DOMAIN users => u \notin DOMAIN users'
    ]_vars

\* The rater was deleted while signed in: the session is still stored, and a
\* request that carried it has been answered that its user is not found.
C29_Witness ==
  /\ resp.status = 401
  /\ resp.message = "User not found"
  /\ \E sid \in SessionIds :
       /\ SessionOfDeletedUser(sid)
       /\ SessionLookup(sid) # NoSession
       /\ sessions[sid].userId \in DOMAIN SeedUsers

\* C30: a rating row is created or changed only while its author's role is
\* normal: at the step that commits the write, the author is a rater, whatever
\* adminSetRole has done since the request passed the role check.
C30_RatingsAreWrittenByRaters ==
  [][\A r \in ratings' \ ratings :
       /\ r.userId \in DOMAIN users
       /\ users[r.userId].role = "normal"]_vars

====
